---- MODULE Spec2Model ----
(***************************************************************************)
(* Model of the Recharge purchase-option bridge of the Horizon theme:      *)
(* RechargePurchaseOptionObserver and the recharge-product custom element  *)
(* that owns it.  One observer object is one "session".  The widget's      *)
(* shadow tree, the host's light DOM, the timer queue and the mutation     *)
(* observers of the page are the environment the observer runs in.  The   *)
(* two consumers of its SelectionChanged event, StickyBuyButtonsComponent  *)
(* and OneAddToCartComponent, stand in the same section.                   *)
(***************************************************************************)
EXTENDS Integers, Sequences, FiniteSets, TLC

\* ------------------------------------------------------------------ bounds

\* one-filter-observer elements on the page
MaxInstances == 4

\* connectedCallback runs at most this often (each run constructs an observer)
MaxSessions == 2

\* the widget element is inserted into the host at most this often
MaxWidgetAdds == 1

\* default value of retryFindShadowRoot's maxAttempts parameter
MaxAttempts == 10

\* isOneTimeOption / isSubscriptionOption stop after this many ancestors
MaxDepth == 10

\* ------------------------------------------------------- the widget's DOM

\* option 1 is the one-time option, option 2 the subscription option
Options == {1, 2}

NoNode == 0

Markers == {"price", "unit", "discounted"}

\* a text is a sequence of tokens; a token is a currency sign, a currency
\* code, white space, a word or a numeric literal (value in cents, n digits)
Tok(k, c, n) == [k |-> k, c |-> c, n |-> n]

Num(c, n) == Tok("num", c, n)

NoText == << >>

TenDollars == <<Tok("$", 0, 0), Num(1000, 4)>>

EightFifty == <<Tok("$", 0, 0), Num(850, 3)>>

TwelveUSD == <<Num(1200, 4), Tok("sp", 0, 0), Tok("USD", 0, 0)>>

ZeroDollars == <<Tok("$", 0, 0), Num(0, 3)>>

FreeWord == <<Tok("w", 0, 0)>>

\* "$0.00 12.00 USD": only the last pattern yields a positive value
ZeroThenTwelveUSD ==
    <<Tok("$", 0, 0), Num(0, 3), Tok("sp", 0, 0), Num(1200, 4), Tok("sp", 0, 0), Tok("USD", 0, 0)>>

\* "USD 9": a one-digit amount after the currency code
USDNine == <<Tok("USD", 0, 0), Tok("sp", 0, 0), Num(900, 1)>>

\* "5 $": a one-digit amount before the currency sign
FiveBeforeSign == <<Num(500, 1), Tok("sp", 0, 0), Tok("$", 0, 0)>>

\* the part tokens on the ancestor chain of an option, the option first
OptionChain(o) ==
    IF o = 1 THEN <<{"rc-purchase-option", "onetime"}, {"rc-purchase-options"}>>
    ELSE <<{"rc-purchase-option", "subscription"}, {"rc-purchase-options"}>>

\* the marker names each kind of option renders its prices under
OptionMarkers(o) == IF o = 1 THEN {"price"} ELSE {"unit", "discounted"}

EmptyTxt == [o \in Options |-> [k \in Markers |-> NoText]]

\* the snapshot embedded in variant-picker's script tag
Snapshot(kind, id, avail, inv) == [kind |-> kind, id |-> id, available |-> avail, inventory_management |-> inv]

NoSnapshot == Snapshot("absent", "", "undefined", "undefined")

ObjectSnapshot == Snapshot("object", "v2", "false", "shopify")

\* a script whose text JSON.parse rejects
UnparsableSnapshot == Snapshot("unparsable", "", "undefined", "undefined")

\* the text "null", or a falsy primitive
NullSnapshot == Snapshot("null", "", "undefined", "undefined")

\* a text that parses to a truthy primitive, such as 5 or true
PrimitiveSnapshot == Snapshot("primitive", "", "undefined", "undefined")

\* the text "{}": an object without id, available or inventory_management
BareObjectSnapshot == Snapshot("object", "", "undefined", "undefined")

Snapshots == {NoSnapshot, UnparsableSnapshot, NullSnapshot, PrimitiveSnapshot, ObjectSnapshot, BareObjectSnapshot}

\* the value of the form's input[name="id"]: empty or a variant id
FormIds == {"", "v1"}

\* ------------------------------------------------------------- the state

VARIABLES
    docLoading,        \* document.readyState === 'loading'
    hostConnected,     \* the recharge-product element is in the document
    observer,          \* RechargeProduct.observer: a session, or 0 for null
    nSessions,         \* observers constructed so far
    sessions,          \* the fields of every RechargePurchaseOptionObserver
    timers,            \* pending setTimeout callbacks, in firing order
    shadowObservers,   \* MutationObservers attached to the shadow root, in creation order
    dom,               \* the host's subtree and the widget's shadow tree
    adds,              \* widget insertions so far
    events,            \* the events dispatched by the last task, in order
    sticky,            \* the fields of the StickyBuyButtonsComponent
    addToCart,         \* the fields of the OneAddToCartComponent
    page,              \* scroll position, intersections, callbacks and form inputs
    filters,           \* the FilterObserver instances, debounceTimers and the clock
    loader,            \* GSAPLoader's fields, the window and the calls in flight
    wrapper            \* the recharge-subscription-widget-custom element and its fetches

vars == <<docLoading, hostConnected, observer, nSessions, sessions, timers, shadowObservers, dom, adds, events,
          sticky, addToCart, page, filters, loader, wrapper>>

Sessions == 1..MaxSessions

\* The fields the constructor sets, and the history the properties read:
\*   destroyed         destroy() has run
\*   destroyedUnbound  destroy() ran while rechargeContainer was still null
\*   lastDispatched    the node of the last SelectionChanged dispatched
\*   redispatched      this task dispatched a SelectionChanged for lastDispatched
\*   qualified         this task's records made handleSelectionMutations act
\*   threw             this task ended a handler of the session by an exception
\*   scheduled         setTimeout calls so far
\*   lastAttempt       the attempt number of the last retry check
\*   increasing        the attempt numbers of the retry checks so far strictly increase
\*   exhausted         a retry check found attempt = maxAttempts
\*   initialChecks     calls of checkForInitialSelection so far
\*   watched           observeForRechargeWidget created the widget-appearance watcher
NewSession ==
    [ created |-> FALSE,
      dclPending |-> FALSE,
      initialized |-> FALSE,
      selectionObserver |-> FALSE,
      widgetContentObserver |-> FALSE,
      widgetObserver |-> FALSE,
      rechargeContainer |-> FALSE,
      currentSelectedElement |-> NoNode,
      destroyed |-> FALSE,
      destroyedUnbound |-> FALSE,
      lastDispatched |-> NoNode,
      redispatched |-> FALSE,
      qualified |-> FALSE,
      threw |-> FALSE,
      scheduled |-> 0,
      lastAttempt |-> -1,
      increasing |-> TRUE,
      exhausted |-> FALSE,
      initialChecks |-> 0,
      watched |-> FALSE ]

\* ------------------------------------------------------------ extraction

RECURSIVE ChainHas(_, _, _, _)
\* the walk of isOneTimeOption / isSubscriptionOption from position i
ChainHas(chain, token, i, depth) ==
    IF i > Len(chain) \/ depth >= MaxDepth THEN FALSE
    ELSE IF token \in chain[i] THEN TRUE
    ELSE ChainHas(chain, token, i + 1, depth + 1)

isOneTimeOption(chain) == ChainHas(chain, "onetime", 1, 0)

isSubscriptionOption(chain) == ChainHas(chain, "subscription", 1, 0)

FirstOf(S) == IF S = {} THEN 0 ELSE CHOOSE i \in S : \A j \in S : i <= j

IsNum(t, i) == i >= 1 /\ i <= Len(t) /\ t[i].k = "num"

IsTok(t, i, k) == i >= 1 /\ i <= Len(t) /\ t[i].k = k

\* the index of the numeric literal each pattern captures, 0 for no match
PatternCapture(p, t) ==
    CASE p = 1 -> LET i == FirstOf({j \in 1..Len(t) : IsTok(t, j, "$") /\ IsNum(t, j + 1)})
                  IN  IF i = 0 THEN 0 ELSE i + 1
      [] p = 2 -> FirstOf({j \in 1..Len(t) : IsNum(t, j) /\
                            (IsTok(t, j + 1, "$") \/ (IsTok(t, j + 1, "sp") /\ IsTok(t, j + 2, "$")))})
      [] p = 3 -> FirstOf({j \in 1..Len(t) : IsNum(t, j) /\ t[j].n >= 2})
      [] p = 4 -> LET i == FirstOf({j \in 1..Len(t) : IsTok(t, j, "USD") /\
                            (IsNum(t, j + 1) \/ (IsTok(t, j + 1, "sp") /\ IsNum(t, j + 2)))})
                  IN  IF i = 0 THEN 0 ELSE IF IsNum(t, i + 1) THEN i + 1 ELSE i + 2
      [] OTHER -> FirstOf({j \in 1..Len(t) : IsNum(t, j) /\
                            (IsTok(t, j + 1, "USD") \/ (IsTok(t, j + 1, "sp") /\ IsTok(t, j + 2, "USD")))})

NumPatterns == 5

RECURSIVE TryPatterns(_, _)
\* the loop over pricePatterns, from pattern p on
TryPatterns(p, t) ==
    IF p > NumPatterns THEN 0
    ELSE IF PatternCapture(p, t) # 0 /\ t[PatternCapture(p, t)].c > 0 THEN t[PatternCapture(p, t)].c
    ELSE TryPatterns(p + 1, t)

\* the value of the first pattern that matches, positive or not
extractPriceFromElementFirstMatch(t) ==
    IF {p \in 1..NumPatterns : PatternCapture(p, t) # 0} = {} THEN 0
    ELSE t[PatternCapture(FirstOf({p \in 1..NumPatterns : PatternCapture(p, t) # 0}), t)].c

\* the price in cents, 0 when no pattern yields a positive value
extractPriceFromElement(t) == TryPatterns(1, t)

NoPriceData == [ok |-> FALSE, price |-> 0, planType |-> "unknown", hasDiscount |-> FALSE, priceElement |-> "none"]

\* the planType of extractPriceData
planTypeOf(isOneTime, isSubscription) ==
    IF isOneTime THEN "one-time" ELSE IF isSubscription THEN "subscription" ELSE "unknown"

\* the lookup that prefers the unit price to the discounted price
priceElementOfUnitFirst(els, isOneTime, isSubscription) ==
    IF isOneTime THEN (IF "price" \in els THEN "price" ELSE "none")
    ELSE IF isSubscription THEN
        (IF "unit" \in els THEN "unit"
         ELSE IF "discounted" \in els THEN "discounted" ELSE "none")
    ELSE "none"

\* the price element extractPriceData reads, by the part it carries
priceElementOf(els, isOneTime, isSubscription) ==
    IF isOneTime THEN (IF "price" \in els THEN "price" ELSE "none")
    ELSE IF isSubscription THEN
        (IF "discounted" \in els THEN "discounted"
         ELSE IF "unit" \in els THEN "unit" ELSE "none")
    ELSE "none"

\* the result of extractPriceData once element and price are known
priceDataOf(planType, priceElement, price) ==
    IF priceElement = "none" \/ price <= 0 THEN NoPriceData
    ELSE [ok |-> TRUE, price |-> price, planType |-> planType,
          hasDiscount |-> priceElement = "discounted", priceElement |-> priceElement]

\* extractPriceData for an option classified as isOneTime / isSubscription
extractPriceDataAs(d, o, isOneTime, isSubscription) ==
    priceDataOf(planTypeOf(isOneTime, isSubscription),
                priceElementOf(d.els[o], isOneTime, isSubscription),
                IF priceElementOf(d.els[o], isOneTime, isSubscription) = "none" THEN 0
                ELSE extractPriceFromElement(d.txt[o][priceElementOf(d.els[o], isOneTime, isSubscription)]))

\* extractPriceData(selectedElement) on the DOM d
extractPriceData(d, o) ==
    extractPriceDataAs(d, o, isOneTimeOption(d.chain[o]), isSubscriptionOption(d.chain[o]))

\* the extractor that takes the text it read out of the price element
extractPriceDataConsumes(d, o) ==
    IF extractPriceData(d, o).priceElement = "none" THEN d
    ELSE [d EXCEPT !.txt[o][extractPriceData(d, o).priceElement] = NoText]

\* the widget as extractPriceData(selectedElement) leaves it: closest,
\* querySelector and textContent read the tree, nothing is assigned to it
extractPriceDataLeaves(d, o) == d

isWidgetContentLoaded(d) == \E o \in Options : d.els[o] # {}

\* hasSubscriptionOptionsAvailable(observeTarget): an element whose part names
\* a subscription, or a unit or discounted price; the words the text test
\* looks for stand in the subscription option's label, so they are in the
\* tree exactly when that option is
hasSubscriptionOptionsAvailable(d) ==
    \/ \E o \in d.opts : \E i \in 1..Len(d.chain[o]) : "subscription" \in d.chain[o][i]
    \/ \E o \in Options : d.els[o] \cap {"unit", "discounted"} # {}

\* ------------------------------------------------- the running machine

\* What a handler changes while it runs: the sessions, the timer queue, the
\* observers on the shadow root, the events dispatched so far by this task,
\* and whether an exception is propagating out of the handler.
Machine(ss, tq, so, ev) == [ss |-> ss, tq |-> tq, so |-> so, ev |-> ev, exc |-> FALSE]

SelectionChanged(s, o, pd, changeType) ==
    [ type |-> "SelectionChanged", s |-> s, node |-> o, price |-> pd.price,
      planType |-> pd.planType, hasDiscount |-> pd.hasDiscount,
      priceElement |-> pd.priceElement, changeType |-> changeType,
      via |-> "none", resource |-> "none", html |-> NoText, productId |-> "none" ]

VariantUpdated(s, o, via, resource, html, productId) ==
    [ type |-> "VariantUpdated", s |-> s, node |-> o, price |-> 0,
      planType |-> "none", hasDiscount |-> FALSE,
      priceElement |-> "none", changeType |-> "none",
      via |-> via, resource |-> resource, html |-> html, productId |-> productId ]

Resource(id, avail, inv, rest) == [id |-> id, available |-> avail, inventory_management |-> inv, rest |-> rest]

\* an observer attached to the shadow root ("shadow") or, by the fallback of
\* setupSelectionObserver, to the widget element's light DOM ("widget")
Obs(s, kind, target) == [s |-> s, kind |-> kind, target |-> target]

Attached(so, s, kind) == {i \in 1..Len(so) : so[i].s = s /\ so[i].kind = kind}

LastOf(S) == CHOOSE i \in S : \A j \in S : j <= i

Without(seq, i) == [j \in 1..(Len(seq) - 1) |-> IF j < i THEN seq[j] ELSE seq[j + 1]]

\* observer.disconnect() on the observer a field refers to: the newest one
disconnectObserver(so, s, kind) ==
    IF Attached(so, s, kind) = {} THEN so ELSE Without(so, LastOf(Attached(so, s, kind)))

\* this.rechargeContainer || this.element.querySelector('recharge-subscription-widget')
observeTarget(sess, d) ==
    IF sess.rechargeContainer THEN "shadow" ELSE IF d.widget THEN "widget" ELSE "none"

\* querySelector('[part*="rc-purchase-option__selected"]') in the target
selectedIn(target, d) == IF target = "shadow" THEN d.selected ELSE NoNode

\* ------------------------------------------------------------- dispatch

\* the variantResource that takes the form's id only when the snapshot has none
variantResourceKeepsId(variantId, snap) ==
    IF snap.kind = "object"
    THEN Resource(IF snap.id = "" THEN variantId ELSE snap.id,
                  IF snap.available = "undefined" THEN "true" ELSE snap.available,
                  IF snap.inventory_management = "undefined" THEN "false" ELSE snap.inventory_management,
                  "snapshot")
    ELSE Resource(variantId, "true", "false", "none")

\* the variantResource of dispatchVariantUpdateEvent
variantResource(variantId, snap) ==
    IF snap.kind = "object"
    THEN Resource(IF variantId # "" /\ snap.id # variantId THEN variantId ELSE snap.id,
                  IF snap.available = "undefined" THEN "true" ELSE snap.available,
                  IF snap.inventory_management = "undefined" THEN "false" ELSE snap.inventory_management,
                  "snapshot")
    ELSE Resource(variantId, "true", "false", "none")

\* dispatchVariantUpdateEvent giving up when the snapshot does not parse
dispatchVariantUpdateEventNoFallback(m, s, d, o, priceElement, via) ==
    IF ~d.form THEN m
    ELSE IF d.snapshot.kind = "primitive" THEN [m EXCEPT !.exc = TRUE, !.ss[s].threw = TRUE]
    ELSE IF d.snapshot.kind = "unparsable" THEN m
    ELSE IF d.txt[o][priceElement] = NoText THEN m
    ELSE [m EXCEPT !.ev = Append(@,
            VariantUpdated(s, o, via, variantResource(d.formId, d.snapshot),
                           d.txt[o][priceElement], d.productId))]

\* dispatchVariantUpdateEvent(priceElement); via names the caller
dispatchVariantUpdateEvent(m, s, d, o, priceElement, via) ==
    IF ~d.form THEN m
    ELSE IF d.snapshot.kind = "primitive" THEN [m EXCEPT !.exc = TRUE, !.ss[s].threw = TRUE]
    ELSE IF d.txt[o][priceElement] = NoText THEN m
    ELSE [m EXCEPT !.ev = Append(@,
            VariantUpdated(s, o, via, variantResource(d.formId, d.snapshot),
                           d.txt[o][priceElement], d.productId))]

\* the dispatch of SelectionChanged on the host element
dispatchSelectionChanged(m, s, o, pd, changeType) ==
    [m EXCEPT !.ev = Append(@, SelectionChanged(s, o, pd, changeType)),
              !.ss[s].redispatched = @ \/ m.ss[s].lastDispatched = o,
              !.ss[s].lastDispatched = o]

\* dispatchPurchaseOptionChangeEvent with the two dispatches in the other order
dispatchPurchaseOptionChangeEventSwapped(m, s, d, o, pd, changeType) ==
    dispatchSelectionChanged(dispatchVariantUpdateEvent(m, s, d, o, pd.priceElement, "selection"),
                             s, o, pd, changeType)

\* dispatchPurchaseOptionChangeEvent(selectedElement, priceData, changeType)
dispatchPurchaseOptionChangeEvent(m, s, d, o, pd, changeType) ==
    dispatchVariantUpdateEvent(dispatchSelectionChanged(m, s, o, pd, changeType),
                               s, d, o, pd.priceElement, "selection")

\* if (priceData) this.dispatchPurchaseOptionChangeEvent(...)
dispatchIfPriced(m, s, d, o, pd, changeType) ==
    IF pd.ok THEN dispatchPurchaseOptionChangeEvent(m, s, d, o, pd, changeType) ELSE m

\* handlePurchaseOptionSelected(selectedElement)
handlePurchaseOptionSelected(m, s, d, o) ==
    dispatchIfPriced([m EXCEPT !.ss[s].currentSelectedElement = o], s, d, o,
                     extractPriceData(d, o), "selection")

\* the same-element branch that dispatches for a one-time price element
\* without asking whether extraction succeeded
updatePriceOfCurrentUnchecked(m, s, d, sel, pd) ==
    IF pd.ok THEN dispatchVariantUpdateEvent(m, s, d, sel, pd.priceElement, "price")
    ELSE IF "price" \in d.els[sel] THEN dispatchVariantUpdateEvent(m, s, d, sel, "price", "price")
    ELSE m

\* the branch of checkForPriceUpdate for the element already selected
updatePriceOfCurrent(m, s, d, sel, pd) ==
    IF pd.ok THEN dispatchVariantUpdateEvent(m, s, d, sel, pd.priceElement, "price") ELSE m

\* checkForPriceUpdate() once the selected element is looked up
checkForPriceUpdateOf(m, s, d, sel) ==
    IF sel = NoNode THEN m
    ELSE IF sel = m.ss[s].currentSelectedElement
    THEN updatePriceOfCurrent(m, s, d, sel, extractPriceData(d, sel))
    ELSE handlePurchaseOptionSelected(m, s, d, sel)

\* checkForPriceUpdate()
checkForPriceUpdate(m, s, d) ==
    checkForPriceUpdateOf(m, s, d, selectedIn(observeTarget(m.ss[s], d), d))

\* checkForInitialSelection() once target and selected element are looked up
checkForInitialSelectionOf(m, s, d, target, sel) ==
    IF target # "shadow" \/ ~hasSubscriptionOptionsAvailable(d) \/ sel = NoNode THEN m
    ELSE dispatchIfPriced([m EXCEPT !.ss[s].currentSelectedElement = sel], s, d, sel,
                          extractPriceData(d, sel), "initial-load")

\* checkForInitialSelection()
checkForInitialSelection(m, s, d) ==
    checkForInitialSelectionOf([m EXCEPT !.ss[s].initialChecks = @ + 1], s, d,
                               observeTarget(m.ss[s], d),
                               selectedIn(observeTarget(m.ss[s], d), d))

\* a MutationRecord of the shadow tree: an attribute record names its target,
\* a characterData or childList record says whether a price element is touched
Rec(type, target, price) == [type |-> type, target |-> target, price |-> price]

\* the record is one handleSelectionMutations acts on
Qualified(m, s) == [m EXCEPT !.ss[s].qualified = TRUE]

\* the loop body that takes every part-attribute record for a selection,
\* whether or not its target carries the selected marker
handleSelectionMutationAnyPart(m, s, d, r) ==
    IF r.type = "attributes"
    THEN handlePurchaseOptionSelected(Qualified(m, s), s, d, r.target)
    ELSE IF r.price THEN checkForPriceUpdate(Qualified(m, s), s, d) ELSE m

\* the body of the loop of handleSelectionMutations for one record
handleSelectionMutation(m, s, d, r) ==
    IF r.type = "attributes"
    THEN (IF r.target = d.selected THEN handlePurchaseOptionSelected(Qualified(m, s), s, d, r.target) ELSE m)
    ELSE IF r.price THEN checkForPriceUpdate(Qualified(m, s), s, d) ELSE m

RECURSIVE handleSelectionMutations(_, _, _, _, _)
\* handleSelectionMutations(mutations), from record i on
handleSelectionMutations(m, s, d, recs, i) ==
    IF i > Len(recs) \/ m.exc THEN m
    ELSE handleSelectionMutations(handleSelectionMutation(m, s, d, recs[i]), s, d, recs, i + 1)

\* if (this.widgetContentObserver) { disconnect(); this.widgetContentObserver = null }
dropWidgetContentObserver(m, s) ==
    IF m.ss[s].widgetContentObserver
    THEN [m EXCEPT !.so = disconnectObserver(@, s, "content"), !.ss[s].widgetContentObserver = FALSE]
    ELSE m

\* the callback of widgetContentObserver
widgetContentCallback(m, s, d, recs) ==
    IF (\E i \in 1..Len(recs) : recs[i].type = "childList") /\ isWidgetContentLoaded(d)
    THEN checkForInitialSelection(dropWidgetContentObserver(m, s), s, d)
    ELSE m

\* ------------------------------------------------------------ discovery

\* setupWidgetContentObserver(observeTarget)
setupWidgetContentObserver(m, s, d, target) ==
    IF target = "shadow" /\ isWidgetContentLoaded(d) THEN checkForInitialSelection(m, s, d)
    ELSE [m EXCEPT !.ss[s].widgetContentObserver = TRUE,
                   !.so = Append(@, Obs(s, "content", target))]

\* setupSelectionObserver() once the observe target is looked up
setupSelectionObserverOn(m, s, d, target) ==
    IF target = "none" THEN m
    ELSE setupWidgetContentObserver([m EXCEPT !.ss[s].selectionObserver = TRUE,
                                              !.so = Append(@, Obs(s, "selection", target))],
                                    s, d, target)

\* setupSelectionObserver()
setupSelectionObserver(m, s, d) == setupSelectionObserverOn(m, s, d, observeTarget(m.ss[s], d))

\* stopWidgetObserver()
stopWidgetObserver(m, s) == [m EXCEPT !.ss[s].widgetObserver = FALSE]

\* findShadowRoot(widgetElement): the widget element keeps its shadow root
\* whether or not it is still in the host
findShadowRoot(d) == d.shadow

\* the found branch of retryFindShadowRoot with the guard of the
\* selection-watcher setup inverted
shadowRootFoundGuardInverted(m, s, d) ==
    IF m.ss[s].selectionObserver THEN setupSelectionObserver(stopWidgetObserver(m, s), s, d)
    ELSE stopWidgetObserver(m, s)

\* retryFindShadowRoot, the branch where the shadow root is found
shadowRootFound(m, s, d) ==
    IF ~m.ss[s].selectionObserver THEN setupSelectionObserver(stopWidgetObserver(m, s), s, d)
    ELSE stopWidgetObserver(m, s)

\* retryFindShadowRoot after the attempt number is noted
retryFindShadowRootAt(m, s, d, attempt) ==
    IF findShadowRoot(d) THEN shadowRootFound([m EXCEPT !.ss[s].rechargeContainer = TRUE], s, d)
    ELSE IF attempt < MaxAttempts
    THEN [m EXCEPT !.tq = Append(@, [s |-> s, attempt |-> attempt + 1]),
                   !.ss[s].scheduled = @ + 1]
    ELSE [m EXCEPT !.ss[s].exhausted = TRUE]

\* retryFindShadowRoot(widgetElement, attempt, maxAttempts = 10)
retryFindShadowRoot(m, s, d, attempt) ==
    retryFindShadowRootAt([m EXCEPT !.ss[s].increasing = @ /\ attempt > m.ss[s].lastAttempt,
                                    !.ss[s].lastAttempt = attempt],
                          s, d, attempt)

\* findRechargeContainer(): every selector reaches the widget element or an
\* ancestor of it, and findShadowRoot descends from there to its shadow root
findRechargeContainer(m, s, d) ==
    IF d.widget /\ findShadowRoot(d) THEN [m EXCEPT !.ss[s].rechargeContainer = TRUE]
    ELSE IF ~m.ss[s].rechargeContainer /\ d.widget THEN retryFindShadowRoot(m, s, d, 0)
    ELSE m

\* the found branch of checkForExistingWidget / handleWidgetMutations
\* without the call of stopWidgetObserver
whenContainerFoundKeepsWatcher(m, s, d) ==
    IF m.ss[s].rechargeContainer THEN setupSelectionObserver(m, s, d) ELSE m

\* if (this.rechargeContainer) { this.stopWidgetObserver(); this.setupSelectionObserver() }
whenContainerFound(m, s, d) ==
    IF m.ss[s].rechargeContainer THEN setupSelectionObserver(stopWidgetObserver(m, s), s, d) ELSE m

\* checkForExistingWidget()
checkForExistingWidget(m, s, d) == whenContainerFound(findRechargeContainer(m, s, d), s, d)

\* handleWidgetMutations that does not look the boundary up
handleWidgetMutationsIdle(m, s, d, foundWidget) == m

\* handleWidgetMutations(mutations); foundWidget says whether an added node
\* is or contains the widget element
handleWidgetMutations(m, s, d, foundWidget) ==
    IF foundWidget /\ d.widget THEN whenContainerFound(findRechargeContainer(m, s, d), s, d) ELSE m

\* startObserving() / observeForRechargeWidget()
observeForRechargeWidget(m, s, d) ==
    IF d.widget THEN checkForExistingWidget(m, s, d)
    ELSE checkForExistingWidget([m EXCEPT !.ss[s].widgetObserver = TRUE, !.ss[s].watched = TRUE], s, d)

\* this.isInitialized = true, reached unless setup() threw
markInitialized(m, s) == IF m.exc THEN m ELSE [m EXCEPT !.ss[s].initialized = TRUE]

\* setup()
setup(m, s, d) == markInitialized(observeForRechargeWidget(findRechargeContainer(m, s, d), s, d), s)

\* a constructor that takes the retry bookkeeping over from the session
\* constructed before
constructReusing(m, s, d, loading) ==
    IF loading THEN [m EXCEPT !.ss[s] = [NewSession EXCEPT !.created = TRUE, !.dclPending = TRUE]]
    ELSE setup([m EXCEPT !.ss[s] = [NewSession EXCEPT !.created = TRUE,
                                                      !.exhausted = m.ss[IF s > 1 THEN s - 1 ELSE s].exhausted,
                                                      !.scheduled = m.ss[IF s > 1 THEN s - 1 ELSE s].scheduled]],
               s, d)

\* new RechargePurchaseOptionObserver(element): the constructor and init()
construct(m, s, d, loading) ==
    IF loading THEN [m EXCEPT !.ss[s] = [NewSession EXCEPT !.created = TRUE, !.dclPending = TRUE]]
    ELSE setup([m EXCEPT !.ss[s] = [NewSession EXCEPT !.created = TRUE]], s, d)

\* if (this.selectionObserver) { disconnect(); this.selectionObserver = null }
dropSelectionObserver(m, s) ==
    IF m.ss[s].selectionObserver
    THEN [m EXCEPT !.so = disconnectObserver(@, s, "selection"), !.ss[s].selectionObserver = FALSE]
    ELSE m

\* destroy() without the teardown of the content-ready watcher
destroyKeepsContentWatcher(m, s) ==
    [stopWidgetObserver(dropSelectionObserver(m, s), s)
        EXCEPT !.ss[s].currentSelectedElement = NoNode,
               !.ss[s].destroyed = TRUE,
               !.ss[s].destroyedUnbound = ~m.ss[s].rechargeContainer]

\* destroy()
destroy(m, s) ==
    [stopWidgetObserver(dropWidgetContentObserver(dropSelectionObserver(m, s), s), s)
        EXCEPT !.ss[s].currentSelectedElement = NoNode,
               !.ss[s].destroyed = TRUE,
               !.ss[s].destroyedUnbound = ~m.ss[s].rechargeContainer]

\* ------------------------------------------------------------ consumers
\* StickyBuyButtonsComponent and OneAddToCartComponent, in the section of
\* the host.  Of their listeners the ones for recharge:selection:change,
\* scroll, intersection and quantity are modelled; their variantUpdate
\* listeners write the id input, the price, the thumbnail and the button,
\* none of which is read here.

\* the fields of StickyBuyButtonsComponent; generation counts its
\* connectedCallback runs, ticking is the flag of the newest onScroll closure
NewSticky ==
    [ connected |-> FALSE,
      generation |-> 0,
      isVisible |-> FALSE,
      buyButtonsInView |-> TRUE,
      footerInView |-> FALSE,
      scrollThresholdPassed |-> FALSE,
      isSubscription |-> FALSE,
      ticking |-> FALSE ]

\* the fields of OneAddToCartComponent and where it stands
\*   pendingRaf   the handle #pendingRaf holds, 0 for null
NewAddToCart(inStickyBar) ==
    [ connected |-> FALSE, isSubscription |-> FALSE, inStickyBar |-> inStickyBar,
      pendingRaf |-> 0 ]

\* the window and the document around the consumers:
\*   scrolled         window.scrollY >= SCROLL_THRESHOLD
\*   buttonsInView    the main buy buttons intersect the viewport
\*   footerInView     the footer intersects the viewport
\*   buyEntries       entries queued for the buy-buttons IntersectionObserver
\*   footerEntries    entries queued for the footer IntersectionObserver
\*   raf              pending requestAnimationFrame callbacks of onScroll, by generation
\*   mainQuantity     value of input[name=quantity] of the main form
\*   stickyQuantity   value of input[name=quantity] of the sticky bar
\*   synthesized      input/change events syncToMainForm dispatched in this task
\*   diverged         the event cascade of this task did not end within MaxCascade
\*   mainId           value of input[name=id] of the main form
\*   stickyId         value of input[name=id] of the sticky bar
\*   mainPlan         value of input[name=selling_plan] of the main form
\*   stickyPlan       the same input of the sticky bar, "missing" before it is created
\*   stickyProductId  data-product-id of the sticky bar's product-form-component
\*   stickyDisabled   disabled state of the sticky bar's submit button
\*   stickyText       text of the sticky bar's submit button
\*   mainText         text of the main form's submit button
\*   stickyPrice      content of the sticky bar's price container
\*   mainPrice        content of the main page's price container
\*   stickyMedia      data-media-id of the sticky bar's thumbnail, 0 for none
\*   frames           handles of the animation frames OneAddToCartComponent has pending
\*   textUpdates      runs of OneAddToCartComponent.#updateButtonText in this task
\*   cancelled        animation frames cancelled in this task
\*   reapplied        an animation frame of this task ran #updateButtonText
\*   changedName      name of the input whose change event this task began with
\*   changedInSticky  that input stands in the sticky bar
NewPage(scrolled, buttonsInView, footerInView) ==
    [ scrolled |-> scrolled,
      buttonsInView |-> buttonsInView,
      footerInView |-> footerInView,
      buyEntries |-> << >>,
      footerEntries |-> << >>,
      raf |-> << >>,
      mainQuantity |-> 1,
      stickyQuantity |-> 1,
      synthesized |-> 0,
      diverged |-> FALSE,
      mainId |-> "v1",
      stickyId |-> "v1",
      mainPlan |-> "",
      stickyPlan |-> "missing",
      stickyProductId |-> "p1",
      stickyDisabled |-> FALSE,
      stickyText |-> "default",
      mainText |-> "default",
      stickyPrice |-> TenDollars,
      mainPrice |-> TenDollars,
      stickyMedia |-> 0,
      frames |-> {},
      textUpdates |-> 0,
      cancelled |-> 0,
      reapplied |-> FALSE,
      changedName |-> "none",
      changedInSticky |-> FALSE ]

World(st, atc, pg) == [sticky |-> st, addToCart |-> atc, page |-> pg]

\* #syncInputValue(name, value, createIfMissing): only a missing
\* selling_plan input is created
syncInputValue(w, name, value, createIfMissing) ==
    CASE name = "quantity" -> [w EXCEPT !.page.stickyQuantity = value]
      [] name = "id" -> [w EXCEPT !.page.stickyId = value]
      [] name = "selling_plan" ->
            IF w.page.stickyPlan = "missing" /\ ~createIfMissing THEN w
            ELSE [w EXCEPT !.page.stickyPlan = value]
      [] OTHER -> w

\* #syncFromMainForm(), the variant id: if (variantId?.value)
syncIdFromMainForm(w) ==
    IF w.page.mainId # "" THEN syncInputValue(w, "id", w.page.mainId, FALSE) ELSE w

\* #syncFromMainForm(): selling plan, variant id, quantity
syncFromMainForm(w) ==
    syncInputValue(
        syncIdFromMainForm(syncInputValue(w, "selling_plan", w.page.mainPlan, TRUE)),
        "quantity", w.page.mainQuantity, FALSE)

\* #show()
show(w) ==
    IF w.sticky.isVisible THEN w ELSE syncFromMainForm([w EXCEPT !.sticky.isVisible = TRUE])

\* #hide()
hide(w) ==
    IF ~w.sticky.isVisible THEN w ELSE [w EXCEPT !.sticky.isVisible = FALSE]

\* #updateVisibility()
updateVisibility(w) ==
    IF w.sticky.scrollThresholdPassed /\ ~w.sticky.buyButtonsInView /\ ~w.sticky.footerInView
    THEN show(w)
    ELSE hide(w)

\* the sticky bar's listener with the comparison turned round
handleRechargeSelectionChangeInverted(w, e) ==
    syncFromMainForm([w EXCEPT !.sticky.isSubscription = (e.planType # "subscription")])

\* StickyBuyButtonsComponent.#handleRechargeSelectionChange(event)
handleRechargeSelectionChange(w, e) ==
    syncFromMainForm([w EXCEPT !.sticky.isSubscription = (e.planType = "subscription")])

\* a parsed document without a price container
NoContainer == <<Tok("w", 0, 0), Tok("w", 0, 0)>>

\* the detail of a VariantUpdated that carries no resource
NoResource == Resource("", "undefined", "undefined", "absent")

\* resource.featured_media of the theme's variants, 0 for none
mediaOf(resource) ==
    CASE resource.rest = "media1" -> 1
      [] resource.rest = "media2" -> 2
      [] OTHER -> 0

\* #updateButtonState(available): !available holds for false and for undefined
updateButtonState(w, available) ==
    IF available # "true"
    THEN [w EXCEPT !.page.stickyDisabled = TRUE, !.page.stickyText = "soldOut"]
    ELSE [w EXCEPT !.page.stickyDisabled = FALSE,
                   !.page.stickyText = IF w.sticky.isSubscription THEN "subscription" ELSE "default"]

\* #updatePrice(html): the container of the event's document, else the one of
\* the main page
updatePrice(w, html) ==
    [w EXCEPT !.page.stickyPrice = IF html = NoContainer THEN w.page.mainPrice ELSE html]

\* #updateThumbnail(media)
updateThumbnail(w, media) ==
    IF w.page.stickyMedia = media THEN w ELSE [w EXCEPT !.page.stickyMedia = media]

\* #handleVariantUpdate from "Sync price" on: if (data?.html), if (resource.featured_media)
updatePriceAndThumbnail(w, e) ==
    IF mediaOf(e.resource) # 0
    THEN updateThumbnail(IF e.html # NoText THEN updatePrice(w, e.html) ELSE w, mediaOf(e.resource))
    ELSE IF e.html # NoText THEN updatePrice(w, e.html) ELSE w

\* StickyBuyButtonsComponent.#handleVariantUpdate without the product check
stickyHandleVariantUpdateAnyProduct(w, e) ==
    IF e.resource = NoResource THEN w
    ELSE updatePriceAndThumbnail(
            updateButtonState(syncInputValue(w, "id", e.resource.id, FALSE), e.resource.available),
            e)

\* StickyBuyButtonsComponent.#handleVariantUpdate(event)
stickyHandleVariantUpdate(w, e) ==
    IF e.resource = NoResource THEN w
    ELSE IF w.page.stickyProductId # "" /\ e.productId # "" /\ w.page.stickyProductId # e.productId
    THEN w
    ELSE updatePriceAndThumbnail(
            updateButtonState(syncInputValue(w, "id", e.resource.id, FALSE), e.resource.available),
            e)

\* OneAddToCartComponent.#updateButtonText(): the text of the component's
\* own button, from its data attributes or those of the main component
updateButtonText(w) ==
    IF w.addToCart.inStickyBar
    THEN [w EXCEPT !.page.stickyText = IF w.addToCart.isSubscription THEN "subscription" ELSE "default",
                   !.page.textUpdates = @ + 1]
    ELSE [w EXCEPT !.page.mainText = IF w.addToCart.isSubscription THEN "subscription" ELSE "default",
                   !.page.textUpdates = @ + 1]

\* OneAddToCartComponent.#handleSubscriptionChange(event)
handleSubscriptionChange(w, e) ==
    IF e.planType = "" THEN w
    ELSE IF ~w.addToCart.connected THEN w
    ELSE updateButtonText([w EXCEPT !.addToCart.isSubscription = (e.planType = "subscription")])

\* a handle no pending animation frame has
FreshFrame(frames) == CHOOSE h \in 1..(Cardinality(frames) + 1) : h \notin frames

\* requestAnimationFrame(callback), the handle kept in #pendingRaf
requestFrame(w, h) ==
    [w EXCEPT !.page.frames = @ \cup {h}, !.addToCart.pendingRaf = h]

\* cancelAnimationFrame(this.#pendingRaf) if a handle is held
cancelPending(w) ==
    IF w.addToCart.pendingRaf # 0
    THEN [w EXCEPT !.page.frames = @ \ {w.addToCart.pendingRaf}, !.page.cancelled = @ + 1]
    ELSE w

\* OneAddToCartComponent.#handleVariantUpdate stacking its animation frames
addToCartHandleVariantUpdateStacking(w, e) ==
    IF ~w.addToCart.connected THEN w
    ELSE IF w.addToCart.isSubscription /\ (e.resource = NoResource \/ e.resource.available # "false")
    THEN requestFrame(w, FreshFrame(w.page.frames))
    ELSE w

\* OneAddToCartComponent.#handleVariantUpdate(event)
addToCartHandleVariantUpdate(w, e) ==
    IF ~w.addToCart.connected THEN w
    ELSE IF w.addToCart.isSubscription /\ (e.resource = NoResource \/ e.resource.available # "false")
    THEN requestFrame(cancelPending(w), FreshFrame(cancelPending(w).page.frames))
    ELSE w

\* the callback that forgets the handle and leaves the text alone
reapplyForgetting(w) == [w EXCEPT !.addToCart.pendingRaf = 0]

\* the callback OneAddToCartComponent gave to requestAnimationFrame
reapply(w) ==
    IF w.addToCart.connected
    THEN updateButtonText([w EXCEPT !.addToCart.pendingRaf = 0, !.page.reapplied = TRUE])
    ELSE [w EXCEPT !.addToCart.pendingRaf = 0]

\* OneAddToCartComponent.disconnectedCallback()
addToCartDisconnected(w) ==
    [cancelPending(w) EXCEPT !.addToCart.connected = FALSE, !.addToCart.pendingRaf = 0]

\* the listeners of the sticky bar, bound to the document and to its section
\* while it is connected
stickyListens(w, e) ==
    IF ~w.sticky.connected THEN w
    ELSE IF e.type = "SelectionChanged" THEN handleRechargeSelectionChange(w, e)
    ELSE stickyHandleVariantUpdate(w, e)

\* the listeners of the add-to-cart component, bound to its section or, in
\* the sticky bar, to the document, while it is connected
addToCartListens(w, e) ==
    IF ~w.addToCart.connected THEN w
    ELSE IF e.type = "SelectionChanged" THEN handleSubscriptionChange(w, e)
    ELSE addToCartHandleVariantUpdate(w, e)

\* element.dispatchEvent(event): an event bubbles from its target to the
\* section and the document when the target is in the document; the
\* listeners run in the order they were added
deliver(w, e, inDocument) ==
    IF inDocument THEN stickyListens(addToCartListens(w, e), e) ELSE w

RECURSIVE deliverAll(_, _, _, _)
\* the events of one task, in the order they were dispatched
deliverAll(w, evs, i, inDocument) ==
    IF i > Len(evs) THEN w
    ELSE deliverAll(deliver(w, evs[i], inDocument), evs, i + 1, inDocument)

RECURSIVE handleFormChange(_, _, _, _, _)
\* the change event syncToMainForm dispatches on the main input bubbles to
\* the section, where #handleFormChange listens
dispatchChange(w, name, value, fuel) ==
    IF fuel = 0 THEN [w EXCEPT !.page.diverged = TRUE]
    ELSE handleFormChange(w, name, FALSE, value, fuel - 1)

\* mainForm.querySelector(`input[name="${name}"]`).value
mainValue(w, name) ==
    CASE name = "quantity" -> w.page.mainQuantity
      [] name = "id" -> w.page.mainId
      [] name = "selling_plan" -> w.page.mainPlan

\* input.value = value on the main form's input
setMainValue(w, name, value) ==
    CASE name = "quantity" -> [w EXCEPT !.page.mainQuantity = value]
      [] name = "id" -> [w EXCEPT !.page.mainId = value]
      [] name = "selling_plan" -> [w EXCEPT !.page.mainPlan = value]

\* #syncToMainForm(name, value)
syncToMainForm(w, name, value, fuel) ==
    IF mainValue(w, name) # value
    THEN dispatchChange([setMainValue(w, name, value) EXCEPT !.page.synthesized = @ + 2],
                        name, value, fuel)
    ELSE w

\* #handleFormChange syncing every field in both directions
handleFormChangeBothWays(w, name, isFromStickyBar, value, fuel) ==
    IF isFromStickyBar THEN syncToMainForm(w, name, value, fuel)
    ELSE syncInputValue(w, name, value, name = "selling_plan")

\* #handleFormChange with the two directions of quantity exchanged
handleFormChangeExchanged(w, name, isFromStickyBar, value, fuel) ==
    IF name = "quantity"
    THEN (IF isFromStickyBar THEN syncInputValue(w, "quantity", value, FALSE)
          ELSE syncToMainForm(w, "quantity", value, fuel))
    ELSE IF isFromStickyBar THEN w
    ELSE IF name = "id" THEN syncInputValue(w, name, value, FALSE)
    ELSE IF name = "selling_plan" THEN syncInputValue(w, name, value, TRUE)
    ELSE w

\* #handleFormChange(event) for an input named name
handleFormChange(w, name, isFromStickyBar, value, fuel) ==
    IF name = "quantity"
    THEN (IF isFromStickyBar THEN syncToMainForm(w, "quantity", value, fuel)
          ELSE syncInputValue(w, "quantity", value, FALSE))
    ELSE IF isFromStickyBar THEN w
    ELSE IF name = "id" THEN syncInputValue(w, name, value, FALSE)
    ELSE IF name = "selling_plan" THEN syncInputValue(w, name, value, TRUE)
    ELSE w

\* #handleQuantityUpdate(event)
handleQuantityUpdate(w, isFromStickyBar, quantity, fuel) ==
    IF quantity = 0 THEN w
    ELSE IF isFromStickyBar THEN syncToMainForm(w, "quantity", quantity, fuel)
    ELSE syncInputValue(w, "quantity", quantity, FALSE)

\* the consumers at the start of a task
Here ==
    World(sticky, addToCart,
          [page EXCEPT !.synthesized = 0, !.diverged = FALSE, !.textUpdates = 0, !.cancelled = 0,
                       !.reapplied = FALSE,
                       !.changedName = "none", !.changedInSticky = FALSE])

\* the consumers as a task leaves them
CommitWorld(w) ==
    /\ sticky' = w.sticky
    /\ addToCart' = w.addToCart
    /\ page' = w.page
    /\ UNCHANGED <<filters, loader, wrapper>>

\* ------------------------------------------------------ FilterObserver

\* one-filter-observer elements: 1 and 2 stand in section 1, 3 in no
\* section, the others in section 2
Instances == 1..MaxInstances

Sections == {1, 2}

\* get sectionId(), 0 for null
sectionId(i) == IF i <= 2 THEN 1 ELSE IF i = 3 THEN 0 ELSE 2

\* the delay of the debounce timer, in milliseconds
DebounceDelay == 50

\* The instances, the module's debounceTimers map and the timers behind it:
\*   connected   the instances in the document
\*   timerOf     debounceTimers: the timer id kept for a section, 0 for none
\*   pending     the timers set and neither fired nor cleared
\*   now         milliseconds since the page was loaded
\*   lastRun     when #handleFilterUpdate last ran for a section, -1 for never
\*   renders     renderSection calls for a section since its present burst began
NewFilters ==
    [ connected |-> {},
      timerOf |-> [s \in Sections |-> 0],
      pending |-> {},
      now |-> 0,
      lastRun |-> [s \in Sections |-> -1],
      renders |-> [s \in Sections |-> 0] ]

PendingFor(f, s) == {t \in f.pending : t.section = s}

\* an id no pending timer has
FreshTimer(pending) ==
    CHOOSE id \in 1..(Cardinality(pending) + 1) : \A t \in pending : t.id # id

\* if (debounceTimers.has(sectionId)) clearTimeout(debounceTimers.get(sectionId))
clearDebounce(f, s) ==
    IF f.timerOf[s] # 0 THEN [f EXCEPT !.pending = {t \in @ : t.id # f.timerOf[s]}] ELSE f

\* setTimeout(callback, 50) and debounceTimers.set(sectionId, timerId)
setDebounce(f, s, id) ==
    [f EXCEPT !.pending = @ \cup {[id |-> id, section |-> s, due |-> f.now + DebounceDelay]},
              !.timerOf[s] = id]

\* a run of the handler for section s: it continues the burst when the last
\* run for s was less than the delay ago, else it begins a burst
noteRun(f, s) ==
    [f EXCEPT !.lastRun[s] = f.now,
              !.renders[s] = IF f.lastRun[s] >= 0 /\ f.now - f.lastRun[s] < DebounceDelay THEN @ ELSE 0]

\* #handleFilterUpdate that sets its timer without clearing the section's
handleFilterUpdateStacking(f, i) ==
    IF sectionId(i) = 0 THEN f
    ELSE setDebounce(noteRun(f, sectionId(i)), sectionId(i), FreshTimer(f.pending))

\* FilterObserver.#handleFilterUpdate of instance i
handleFilterUpdate(f, i) ==
    IF sectionId(i) = 0 THEN f
    ELSE setDebounce(clearDebounce(noteRun(f, sectionId(i)), sectionId(i)),
                     sectionId(i),
                     FreshTimer(clearDebounce(f, sectionId(i)).pending))

RECURSIVE dispatchFilterUpdate(_, _)
\* a FilterUpdate event on the document: the listeners of the connected
\* instances run one after the other
dispatchFilterUpdate(f, i) ==
    IF i > MaxInstances THEN f
    ELSE dispatchFilterUpdate(IF i \in f.connected THEN handleFilterUpdate(f, i) ELSE f, i + 1)

\* the callback of the debounce timer: debounceTimers.delete(sectionId),
\* then renderSection(sectionId)
debounced(f, t) ==
    [f EXCEPT !.pending = @ \ {t},
              !.timerOf[t.section] = 0,
              !.renders[t.section] = @ + 1]

\* ---------------------------------------------------------- GSAPLoader

\* GSAPLoader's static fields, the window and the document around them:
\*   coreLoaded, scrollTriggerLoaded   the private flags
\*   loadingPromise        #loadingPromise: "null", or the state of the promise
\*   gsap, ScrollTrigger   window.gsap and window.ScrollTrigger are defined
\*   gsapLoading, scrollTriggerLoading   the flags on window
\*   coreScript, stScript  "none", or the state of the last script element appended
\*   coreScripts, stScripts  script elements appended so far
\*   calls                 the calls made, each with the promise it returned
NewLoader ==
    [ coreLoaded |-> FALSE,
      scrollTriggerLoaded |-> FALSE,
      loadingPromise |-> "null",
      gsap |-> FALSE,
      ScrollTrigger |-> FALSE,
      gsapLoading |-> FALSE,
      scrollTriggerLoading |-> FALSE,
      coreScript |-> "none",
      stScript |-> "none",
      coreScripts |-> 0,
      stScripts |-> 0,
      calls |-> << >> ]

\* A call of loadCore, loadScrollTrigger or loadAll:
\*   awaits   what its next step waits for: "immediate" (a resolved promise),
\*            "loadingPromise", "script" (load or error of the ScrollTrigger
\*            script), "event" (the scrollTriggerLoaded event)
\*   next     what follows: "settle" (the returned promise takes the outcome),
\*            "scrollTrigger" (loadScrollTrigger after its await),
\*            "loadScrollTrigger" (loadAll after its first await)
\*   state    of the promise the call returned
Call(kind, awaits, next) == [kind |-> kind, awaits |-> awaits, next |-> next, state |-> "pending"]

\* what a caller of loadCore() is given to await
coreAwaits(l) == IF l.coreLoaded /\ l.gsap THEN "immediate" ELSE "loadingPromise"

\* the executor of loadCore's promise
coreExecutor(l) ==
    IF l.gsap THEN [l EXCEPT !.coreLoaded = TRUE, !.loadingPromise = "resolved"]
    ELSE IF l.gsapLoading THEN [l EXCEPT !.loadingPromise = "pending"]
    ELSE [l EXCEPT !.gsapLoading = TRUE,
                   !.coreScript = "loading",
                   !.coreScripts = @ + 1,
                   !.loadingPromise = "pending"]

\* loadCore that keeps no promise and looks at no flag
loadCoreUncached(l) ==
    IF l.coreLoaded /\ l.gsap THEN l
    ELSE [l EXCEPT !.gsapLoading = TRUE,
                   !.coreScript = "loading",
                   !.coreScripts = @ + 1,
                   !.loadingPromise = "pending"]

\* GSAPLoader.loadCore(), up to its return
loadCore(l) ==
    IF l.coreLoaded /\ l.gsap THEN l
    ELSE IF l.loadingPromise # "null" THEN l
    ELSE coreExecutor(l)

\* the state of what call c awaits
awaited(l, c) ==
    CASE c.awaits = "immediate" -> "resolved"
      [] c.awaits = "loadingPromise" -> l.loadingPromise
      [] c.awaits = "script" ->
            (IF l.stScript = "loaded" THEN "resolved"
             ELSE IF l.stScript = "failed" THEN "rejected" ELSE "pending")
      [] c.awaits = "event" -> (IF l.stScript = "loaded" THEN "resolved" ELSE "pending")

settle(l, i, state) == [l EXCEPT !.calls[i].state = state]

\* the executor of loadScrollTrigger's promise, for call i
scrollTriggerExecutor(l, i) ==
    IF l.ScrollTrigger
    THEN (IF l.gsap THEN settle([l EXCEPT !.scrollTriggerLoaded = TRUE], i, "resolved")
          ELSE settle([l EXCEPT !.scrollTriggerLoaded = TRUE], i, "rejected"))
    ELSE IF l.scrollTriggerLoading
    THEN [l EXCEPT !.calls[i].awaits = "event", !.calls[i].next = "settle"]
    ELSE [l EXCEPT !.scrollTriggerLoading = TRUE,
                   !.stScript = "loading",
                   !.stScripts = @ + 1,
                   !.calls[i].awaits = "script",
                   !.calls[i].next = "settle"]

\* GSAPLoader.loadScrollTrigger() after `await this.loadCore()`
afterCore(l, i) ==
    IF l.scrollTriggerLoaded /\ l.ScrollTrigger THEN settle(l, i, "resolved")
    ELSE scrollTriggerExecutor(l, i)

\* GSAPLoader.loadAll() after `await this.loadCore()`: loadScrollTrigger()
\* is called and calls loadCore() again
afterCoreOfAll(l, i) ==
    [loadCore(l) EXCEPT !.calls[i].awaits = coreAwaits(l), !.calls[i].next = "scrollTrigger"]

\* the continuation of call i once what it awaits has settled
continue(l, i) ==
    IF awaited(l, l.calls[i]) = "rejected" THEN settle(l, i, "rejected")
    ELSE CASE l.calls[i].next = "settle" -> settle(l, i, "resolved")
           [] l.calls[i].next = "scrollTrigger" -> afterCore(l, i)
           [] l.calls[i].next = "loadScrollTrigger" -> afterCoreOfAll(l, i)

\* what follows the first await of each method
NextOf(kind) ==
    CASE kind = "loadCore" -> "settle"
      [] kind = "loadScrollTrigger" -> "scrollTrigger"
      [] kind = "loadAll" -> "loadScrollTrigger"

\* a call of one of the three methods, up to its first await
called(l, kind) ==
    [loadCore(l) EXCEPT !.calls = Append(@, Call(kind, coreAwaits(l), NextOf(kind)))]

\* script.onload of the core script, after the script has defined window.gsap
coreOnload(l) ==
    [l EXCEPT !.gsap = TRUE, !.coreScript = "loaded", !.coreLoaded = TRUE,
              !.loadingPromise = "resolved"]

\* script.onerror of the core script
coreOnerror(l) == [l EXCEPT !.coreScript = "failed", !.loadingPromise = "rejected"]

\* script.onload of the ScrollTrigger script, after the script has defined
\* window.ScrollTrigger; the calls that listen for the event and the call
\* that appended the script read stScript
scrollTriggerOnload(l) ==
    [l EXCEPT !.ScrollTrigger = TRUE, !.stScript = "loaded", !.scrollTriggerLoaded = TRUE]

\* script.onerror of the ScrollTrigger script
scrollTriggerOnerror(l) == [l EXCEPT !.stScript = "failed"]

\* ------------------------------------- recharge-subscription-widget-custom

\* the scripts of the Recharge block in the section the element fetches:
\*   external   a script with a src
\*   config     the three inline scripts with the required ids and a text
\*   anonymous  an inline script without an id
Section(external, config, anonymous) ==
    [external |-> external, config |-> config, anonymous |-> anonymous]

\* The element, the document and the fetches:
\*   connected   the element is in the document
\*   connects    runs of connectedCallback so far
\*   section     what the product page's section holds
\*   fetches     fetches whose then-callback has not run yet
\*   elsewhere   the document has a script with the same src outside the element
\*   external    scripts with that src inside the element
\*   config      copies of each required inline script inside the element
\*   anonymous   copies of the id-less inline script inside the element
NewWrapper ==
    [ connected |-> FALSE,
      connects |-> 0,
      section |-> Section(FALSE, FALSE, FALSE),
      fetches |-> 0,
      elsewhere |-> FALSE,
      external |-> 0,
      config |-> 0,
      anonymous |-> 0 ]

\* scripts with the section's src that document.querySelector can see
ExternalInDocument(x) ==
    (IF x.elsewhere THEN 1 ELSE 0) + (IF x.connected THEN x.external ELSE 0)

\* RechargeSubscriptionWidgetCustom.connectedCallback(): nothing is fetched
\* when the three required scripts are in the element with a text
wrapperConnected(x) ==
    IF x.config > 0
    THEN [x EXCEPT !.connected = TRUE, !.connects = @ + 1]
    ELSE [x EXCEPT !.connected = TRUE, !.connects = @ + 1, !.fetches = @ + 1]

\* forEach on an external script: if (document.querySelector(`script[src=...]`)) return
insertExternal(x) ==
    IF ~x.section.external THEN x
    ELSE IF ExternalInDocument(x) > 0 THEN x
    ELSE [x EXCEPT !.external = @ + 1]

\* forEach on the inline scripts with an id: if (scriptId && this.querySelector(...)) return
insertConfig(x) ==
    IF ~x.section.config THEN x
    ELSE IF x.config > 0 THEN x
    ELSE [x EXCEPT !.config = @ + 1]

\* forEach on an inline script without an id
insertAnonymous(x) ==
    IF x.section.anonymous THEN [x EXCEPT !.anonymous = @ + 1] ELSE x

\* the then-callback of the fetch: the scripts of the block, in their order
sectionFetched(x) ==
    insertAnonymous(insertConfig(insertExternal([x EXCEPT !.fetches = @ - 1])))

\* the fetch fails, or the answer has no Recharge block
fetchFailed(x) == [x EXCEPT !.fetches = @ - 1]

\* the modules beside the bridge, as they are when the page has loaded
ModulesIdle ==
    /\ filters = NewFilters
    /\ loader = NewLoader
    /\ wrapper = NewWrapper

\* ------------------------------------------------ the page's task queue

\* one callback run must not let its exception reach the next callback
Caught(m) == [m EXCEPT !.exc = FALSE]

\* the callback of one observer of the shadow root, if it is still attached
notifyObserver(m, d, recs, o) ==
    IF Attached(m.so, o.s, o.kind) = {} \/ o.target # "shadow" THEN m
    ELSE IF o.kind = "selection" THEN Caught(handleSelectionMutations(m, o.s, d, recs, 1))
    ELSE Caught(widgetContentCallback(m, o.s, d, recs))

RECURSIVE notifyShadow(_, _, _, _, _)
\* "notify mutation observers": every observer that was attached to the
\* shadow root when the records were queued gets them, in creation order,
\* unless an earlier callback disconnected it
notifyShadow(m, d, recs, snapshot, i) ==
    IF i > Len(snapshot) THEN m
    ELSE notifyShadow(notifyObserver(m, d, recs, snapshot[i]), d, recs, snapshot, i + 1)

RECURSIVE notifyHost(_, _, _, _)
\* the widget-appearance observers of the host subtree, in creation order
notifyHost(m, d, foundWidget, s) ==
    IF s > MaxSessions THEN m
    ELSE notifyHost(IF m.ss[s].widgetObserver THEN Caught(handleWidgetMutations(m, s, d, foundWidget)) ELSE m,
                    d, foundWidget, s + 1)

RECURSIVE runDeferredSetups(_, _, _)
\* the DOMContentLoaded listeners, in registration order
runDeferredSetups(m, d, s) ==
    IF s > MaxSessions THEN m
    ELSE runDeferredSetups(IF m.ss[s].dclPending
                           THEN Caught(setup([m EXCEPT !.ss[s].dclPending = FALSE], s, d))
                           ELSE m,
                           d, s + 1)

\* the machine at the start of a task: nothing dispatched yet
Now ==
    Machine([s \in Sessions |-> [sessions[s] EXCEPT !.redispatched = FALSE, !.qualified = FALSE, !.threw = FALSE]],
            timers, shadowObservers, << >>)

\* the state a task leaves behind; its events were dispatched on the host,
\* which is in the document or not
CommitOn(m, inDocument) ==
    /\ sessions' = m.ss
    /\ timers' = m.tq
    /\ shadowObservers' = m.so
    /\ events' = m.ev
    /\ CommitWorld(deliverAll(Here, m.ev, 1, inDocument))

Commit(m) == CommitOn(m, hostConnected)

\* ------------------------------------------------------ host lifecycle

\* this.observer = new RechargePurchaseOptionObserver(this), m being the
\* machine the constructor leaves
AssignObserver(s, m) ==
    /\ CommitOn(Caught(m), TRUE)
    /\ observer' = IF m.exc THEN observer ELSE s
    /\ nSessions' = s

\* RechargeProduct.connectedCallback(), at most `limit` times
ConnectUpTo(limit) ==
    /\ ~hostConnected
    /\ nSessions < limit
    /\ AssignObserver(nSessions + 1, construct(Now, nSessions + 1, dom, docLoading))
    /\ hostConnected' = TRUE
    /\ UNCHANGED <<docLoading, dom, adds>>

connectedCallback == ConnectUpTo(MaxSessions)

\* RechargeProduct.disconnectedCallback()
disconnectedCallback ==
    /\ hostConnected
    /\ hostConnected' = FALSE
    /\ Commit(IF observer # 0 THEN destroy(Now, observer) ELSE Now)
    /\ observer' = 0
    /\ UNCHANGED <<docLoading, nSessions, dom, adds>>

\* the document's DOMContentLoaded event
DOMContentLoaded ==
    /\ docLoading
    /\ docLoading' = FALSE
    /\ Commit(runDeferredSetups(Now, dom, 1))
    /\ UNCHANGED <<hostConnected, observer, nSessions, dom, adds>>

\* the oldest pending setTimeout callback of retryFindShadowRoot (all have
\* the same delay, so they run in the order they were set)
FireTimer ==
    /\ timers # << >>
    /\ LET t == Head(timers)
       IN  Commit(Caught(retryFindShadowRoot([Now EXCEPT !.tq = Tail(@)], t.s, dom, t.attempt)))
    /\ UNCHANGED <<docLoading, hostConnected, observer, nSessions, dom, adds>>

\* ------------------------------------------------- the widget's behaviour

\* a task of the page that changes the host's light DOM
HostTask(d, foundWidget) ==
    /\ dom' = d
    /\ Commit(notifyHost(Now, d, foundWidget, 1))
    /\ UNCHANGED <<docLoading, hostConnected, observer, nSessions>>

\* a task of the widget that changes its shadow tree and queues `recs`
ShadowTask(d, recs) ==
    /\ dom.shadow
    /\ dom' = d
    /\ Commit(notifyShadow(Now, d, recs, shadowObservers, 1))
    /\ UNCHANGED <<docLoading, hostConnected, observer, nSessions, adds>>

\* the app block inserts the widget element into the host, at most `limit` times
AddWidgetUpTo(limit) ==
    /\ ~dom.widget
    /\ adds < limit
    /\ adds' = adds + 1
    /\ HostTask([dom EXCEPT !.widget = TRUE], TRUE)

AddWidget == AddWidgetUpTo(MaxWidgetAdds)

\* the widget element is taken out of the host
RemoveWidget ==
    /\ dom.widget
    /\ adds' = adds
    /\ HostTask([dom EXCEPT !.widget = FALSE], FALSE)

\* the widget's script calls attachShadow: no mutation record is queued
ExposeShadow ==
    /\ dom.widget
    /\ ~dom.shadow
    /\ dom' = [dom EXCEPT !.shadow = TRUE]
    /\ Commit(Now)
    /\ UNCHANGED <<docLoading, hostConnected, observer, nSessions, adds>>

\* the widget renders option elements, `sel` of them carrying the selected marker
RenderOptions ==
    \E S \in (SUBSET (Options \ dom.opts)) \ {{}} : \E sel \in S \cup {NoNode} :
        /\ sel # NoNode => dom.selected = NoNode
        /\ ShadowTask([dom EXCEPT !.opts = @ \cup S,
                                  !.selected = IF sel # NoNode THEN sel ELSE @],
                      <<Rec("childList", NoNode, FALSE)>>)

PriceTexts == {TenDollars, EightFifty}

\* the widget streams a price element into a rendered option
RenderPrice ==
    \E o \in dom.opts : \E k \in OptionMarkers(o) \ dom.els[o] : \E t \in PriceTexts :
        ShadowTask([dom EXCEPT !.els[o] = @ \cup {k}, !.txt[o][k] = t],
                   <<Rec("childList", NoNode, TRUE)>>)

\* the widget removes a price element
RemovePrice ==
    \E o \in dom.opts : \E k \in dom.els[o] :
        ShadowTask([dom EXCEPT !.els[o] = @ \ {k}, !.txt[o][k] = NoText],
                   <<Rec("childList", NoNode, TRUE)>>)

\* the widget rewrites a price with a text of T: by setting the text node's
\* data (a characterData record) or by replacing the text node (a childList
\* record whose added and removed nodes are text nodes)
SetPriceTextTo(T) ==
    \E o \in dom.opts : \E k \in dom.els[o] : \E t \in T \ {dom.txt[o][k]} :
        \E how \in {"characterData", "childList"} :
            ShadowTask([dom EXCEPT !.txt[o][k] = t],
                       <<Rec(how, NoNode, how = "characterData")>>)

SetPriceText == SetPriceTextTo(PriceTexts)

\* the shopper picks another option: the marker leaves the old node and
\* is put on the new one, one attribute record each
Select ==
    \E o \in dom.opts \ {dom.selected} :
        ShadowTask([dom EXCEPT !.selected = o],
                   IF dom.selected = NoNode THEN <<Rec("attributes", o, FALSE)>>
                   ELSE <<Rec("attributes", dom.selected, FALSE), Rec("attributes", o, FALSE)>>)

\* the widget rewrites the part attribute of the selected node, keeping the marker
TouchSelected ==
    /\ dom.selected # NoNode
    /\ ShadowTask(dom, <<Rec("attributes", dom.selected, FALSE)>>)

\* ------------------------------------------------------- specifications

Dom(widget, form, snapshot) ==
    [ widget |-> widget, shadow |-> FALSE, opts |-> {}, selected |-> NoNode,
      chain |-> [o \in Options |-> OptionChain(o)],
      els |-> [o \in Options |-> {}], txt |-> EmptyTxt,
      form |-> form, formId |-> "v1", productId |-> "p1", snapshot |-> snapshot ]

\* the consumers before they are connected, the page at rest
ConsumersIdle ==
    /\ sticky = NewSticky
    /\ addToCart = NewAddToCart(FALSE)
    /\ page = NewPage(FALSE, TRUE, FALSE)

BridgeIdle(doms) ==
    /\ docLoading \in BOOLEAN
    /\ hostConnected = FALSE
    /\ observer = 0
    /\ nSessions = 0
    /\ sessions = [s \in Sessions |-> NewSession]
    /\ timers = << >>
    /\ shadowObservers = << >>
    /\ dom \in doms
    /\ adds = 0
    /\ events = << >>

\* the bridge as constructed, the other modules of the page at rest
InitBridge(doms) == BridgeIdle(doms) /\ ModulesIdle

InitWith(doms) == InitBridge(doms) /\ ConsumersIdle

\* the widget renders all of its content in one task: both options with
\* their prices, the one-time option selected
RenderWidget ==
    /\ dom.opts = {}
    /\ ShadowTask([dom EXCEPT !.opts = Options, !.selected = 1,
                              !.els = [o \in Options |-> OptionMarkers(o)],
                              !.txt = [o \in Options |-> [k \in Markers |->
                                          IF k \notin OptionMarkers(o) THEN NoText
                                          ELSE IF k = "discounted" THEN EightFifty ELSE TenDollars]]],
                  <<Rec("childList", NoNode, TRUE)>>)

\* Discovery and lifecycle: any interleaving of connect, disconnect,
\* DOMContentLoaded, retry timers and the widget's appearance; the widget
\* renders in one step and the shopper changes the selection.
Init == InitWith({Dom(w, TRUE, NoSnapshot) : w \in BOOLEAN})

Next ==
    \/ connectedCallback
    \/ disconnectedCallback
    \/ DOMContentLoaded
    \/ FireTimer
    \/ AddWidget
    \/ RemoveWidget
    \/ ExposeShadow
    \/ RenderWidget
    \/ Select

Spec == Init /\ [][Next]_vars

\* Selection: one session, the widget element present from the start; the
\* widget streams its content in and rewrites it in every order.
connectOnce == ConnectUpTo(1)

InitSelection ==
    /\ InitWith({Dom(TRUE, f, NoSnapshot) : f \in BOOLEAN})
    /\ ~docLoading

NextSelection ==
    \/ connectOnce
    \/ FireTimer
    \/ ExposeShadow
    \/ RenderOptions
    \/ RenderPrice
    \/ RemovePrice
    \/ SetPriceText
    \/ Select
    \/ TouchSelected

SpecSelection == InitSelection /\ [][NextSelection]_vars

\* Dispatch: one session on a widget whose boundary is exposed; the widget
\* renders, rewrites its prices with texts that parse and texts that do not,
\* and moves the selection; the host has every kind of variant snapshot.
DispatchTexts == {TenDollars, EightFifty, ZeroDollars}

SetAnyPriceText == SetPriceTextTo(DispatchTexts)

DispatchDoms ==
    {[Dom(TRUE, TRUE, sn) EXCEPT !.shadow = TRUE, !.formId = id] : sn \in Snapshots, id \in FormIds}
        \cup {[Dom(TRUE, FALSE, NoSnapshot) EXCEPT !.shadow = TRUE]}

InitDispatch ==
    /\ InitWith(DispatchDoms)
    /\ ~docLoading

NextDispatch ==
    \/ connectOnce
    \/ RenderWidget
    \/ RemovePrice
    \/ SetAnyPriceText
    \/ Select
    \/ TouchSelected

SpecDispatch == InitDispatch /\ [][NextDispatch]_vars

\* the length of the ancestor chains the classification is tried on
ChainLen == 12

\* where on the chain a plan token may stand: nowhere (0), near the
\* selected node, on the last ancestor the walk reaches, and beyond it
ChainPositions == {0, 1, 2, MaxDepth, MaxDepth + 1}

\* a chain with the one-time token at position p1 and the subscription
\* token at position p2
ChainOf(p1, p2) ==
    [i \in 1..ChainLen |->
        {"rc-purchase-option"} \cup (IF i = p1 THEN {"onetime"} ELSE {})
                               \cup (IF i = p2 THEN {"subscription"} ELSE {})]

ExtractTexts == {TenDollars, EightFifty, TwelveUSD, ZeroDollars, FreeWord, ZeroThenTwelveUSD, USDNine, FiveBeforeSign}

\* a rendered widget with one option, selected, on the ancestor chain
\* `chain`, with the price elements `els`, the one-time price reading `t`
ExtractDom(chain, els, t) ==
    [Dom(TRUE, TRUE, NoSnapshot) EXCEPT
        !.shadow = TRUE, !.opts = {1}, !.selected = 1,
        !.chain[1] = chain, !.els[1] = els,
        !.txt[1] = [k \in Markers |-> IF k \notin els THEN NoText
                                      ELSE IF k = "price" THEN t
                                      ELSE IF k = "unit" THEN TwelveUSD ELSE EightFifty]]

ExtractDoms ==
    {ExtractDom(ChainOf(p1, p2), {"price", "unit"}, TenDollars) : p1 \in ChainPositions, p2 \in ChainPositions}
        \cup {ExtractDom(ChainOf(p1, 1 - p1), els, TenDollars) : p1 \in {0, 1}, els \in SUBSET Markers}
        \cup {ExtractDom(ChainOf(1, 0), {"price"}, t) : t \in ExtractTexts}

SetExtractText == SetPriceTextTo(ExtractTexts)

\* Extraction: one session on a rendered widget whose selected option has
\* any of the ancestor chains, price elements and price texts above; the
\* widget rewrites the selected marker and the price texts.
InitExtract ==
    /\ InitWith(ExtractDoms)
    /\ ~docLoading

NextExtract ==
    \/ connectOnce
    \/ TouchSelected
    \/ SetExtractText

SpecExtract == InitExtract /\ [][NextExtract]_vars

\* ------------------------------------------------------------ properties

HasTimer(s) == \E i \in 1..Len(timers) : timers[i].s = s

SelectionWatchers(s) == Cardinality(Attached(shadowObservers, s, "selection"))

ContentWatchers(s) == Cardinality(Attached(shadowObservers, s, "content"))

HasWatcher(s) == sessions[s].widgetObserver \/ SelectionWatchers(s) > 0 \/ ContentWatchers(s) > 0

Dispatched(s) == \E i \in 1..Len(events) : events[i].s = s

IsSelectionChanged(i) == events[i].type = "SelectionChanged"

IsVariantUpdated(i) == events[i].type = "VariantUpdated"

\* C1: a session that was destroyed before it found the boundary has no
\* pending retry timer and no deferred setup, has no watcher attached and
\* dispatches no event, in every state after the destroy.
C1_TeardownMidDiscovery ==
    \A s \in Sessions :
        sessions[s].destroyedUnbound =>
            /\ ~HasTimer(s)
            /\ ~sessions[s].dclPending
            /\ ~HasWatcher(s)
            /\ ~Dispatched(s)

\* C2: only the newest session has watchers attached and only it dispatches
\* events, so the events of one task never come from two sessions.
C2_OneSessionPerHost ==
    \A s \in Sessions :
        (HasWatcher(s) \/ Dispatched(s)) => s = nSessions

\* C3: while the boundary has not appeared no event is dispatched, and a
\* session whose retry budget is exhausted has no watcher attached.
C3_NoLeakWithoutBoundary ==
    ~dom.shadow =>
        /\ events = << >>
        /\ \A s \in Sessions :
              (sessions[s].exhausted /\ ~HasTimer(s)) => ~HasWatcher(s)

\* C4: a session schedules at most maxAttempts retry timers in total, and
\* the attempt numbers of its successive retry checks strictly increase.
C4_BoundedDiscovery ==
    \A s \in Sessions :
        /\ sessions[s].scheduled <= MaxAttempts
        /\ sessions[s].increasing

\* FireTimer as the timer queue sees it: the head leaves the queue and, when
\* the retry goes on, its successor joins the tail.  No other action of Next
\* takes such a step, so this is FireTimer's step, stated on `timers` alone.
TimerRuns ==
    /\ timers # << >>
    /\ timers' \in {Tail(timers), Append(Tail(timers), [Head(timers) EXCEPT !.attempt = @ + 1])}

\* Retry: one session from connect to disconnect, the widget element and
\* its boundary appearing at any moment, before or after DOMContentLoaded.
NextRetry ==
    \/ connectOnce
    \/ disconnectedCallback
    \/ DOMContentLoaded
    \/ FireTimer
    \/ AddWidget
    \/ RemoveWidget
    \/ ExposeShadow
    \/ RenderWidget

\* the page's event loop runs every timer callback that is due
SpecRetry == Init /\ [][NextRetry]_vars /\ WF_timers(TimerRuns)

Live(s) == sessions[s].created /\ ~sessions[s].destroyed

Bound(s) == sessions[s].rechargeContainer /\ SelectionWatchers(s) = 1

\* C5: a session that is still retrying when the boundary is exposed, and
\* whose host is not disconnected, eventually is bound: the boundary is
\* recorded and exactly one selection watcher is attached.
C5_BindsWithinBudget ==
    \A s \in Sessions :
        (Live(s) /\ dom.shadow /\ HasTimer(s)) ~> (sessions[s].destroyed \/ Bound(s))

\* a live session that a retry timer bound
C5_Witness ==
    \E s \in Sessions :
        Live(s) /\ Bound(s) /\ sessions[s].lastAttempt >= 1 /\ ~sessions[s].widgetObserver

SelectionChangedCount(s, o) ==
    Cardinality({i \in 1..Len(events) : IsSelectionChanged(i) /\ events[i].s = s /\ events[i].node = o})

\* C6: the task in which a session announces the widget's initial state
\* dispatches exactly one SelectionChanged for the selected node.
C6_OneInitialSelectionChanged ==
    \A i \in 1..Len(events) :
        (IsSelectionChanged(i) /\ events[i].changeType = "initial-load") =>
            SelectionChangedCount(events[i].s, events[i].node) = 1

\* C7: no SelectionChanged is dispatched for the node of the session's
\* most recently dispatched SelectionChanged.
C7_Idempotent == \A s \in Sessions : ~sessions[s].redispatched

\* C8: after a task whose records made the selection handler act while the
\* marked node has a valid price, that node is the node of the session's
\* last SelectionChanged: if it was not before, one was dispatched for it.
C8_SelectionChangeDispatched ==
    \A s \in Sessions :
        (sessions[s].qualified /\ dom.selected # NoNode /\ extractPriceData(dom, dom.selected).ok) =>
            sessions[s].lastDispatched = dom.selected

\* C9: every SelectionChanged is followed at once, in the same task, by
\* exactly one VariantUpdated.
C9_CompanionVariantUpdated ==
    \A i \in 1..Len(events) :
        IsSelectionChanged(i) =>
            /\ i < Len(events)
            /\ IsVariantUpdated(i + 1)
            /\ events[i + 1].s = events[i].s
            /\ (i + 2 <= Len(events) /\ IsVariantUpdated(i + 2)) => events[i + 2].via # "selection"

\* C10: a VariantUpdated caused by a selection change comes right after the
\* SelectionChanged of the same session and node, never before it.
C10_SelectionChangedFirst ==
    \A i \in 1..Len(events) :
        (IsVariantUpdated(i) /\ events[i].via = "selection") =>
            /\ i > 1
            /\ IsSelectionChanged(i - 1)
            /\ events[i - 1].s = events[i].s
            /\ events[i - 1].node = events[i].node

\* a task that dispatched a SelectionChanged and then its VariantUpdated
C10_Witness ==
    \E i \in 1..Len(events) :
        IsVariantUpdated(i) /\ events[i].via = "selection" /\ events[i].html = EightFifty

\* a step that rewrites only the text of price node k of option o, which
\* carries the selected marker and was announced by session s, the new text
\* being one the extractor reads a valid price from
PriceTextStep(s, o, k) ==
    /\ Live(s)
    /\ SelectionWatchers(s) = 1
    /\ dom.selected = o
    /\ sessions[s].lastDispatched = o
    /\ k \in dom.els[o]
    /\ dom'.txt[o][k] # dom.txt[o][k]
    /\ dom' = [dom EXCEPT !.txt[o][k] = dom'.txt[o][k]]
    /\ extractPriceData(dom', o).ok
    /\ extractPriceData(dom', o).priceElement = k

\* C11: a text mutation of the price node of the selected, already announced
\* option dispatches no SelectionChanged and exactly one VariantUpdated,
\* whose html is the new price markup (stated for a host that has its
\* product form and a snapshot that is absent, unparsable or an object).
C11_PriceOnlyMutation ==
    [][\A s \in Sessions : \A o \in Options : \A k \in Markers :
          (PriceTextStep(s, o, k) /\ dom.form /\ dom.snapshot.kind # "primitive") =>
              /\ Len(events') = 1
              /\ events'[1].type = "VariantUpdated"
              /\ events'[1].html = dom'.txt[o][k]]_vars

\* a step that moves the selected marker to option o, which has a valid
\* price, while session s watches the widget
SelectStep(s, o) ==
    /\ Live(s)
    /\ SelectionWatchers(s) = 1
    /\ dom.selected # o
    /\ dom' = [dom EXCEPT !.selected = o]
    /\ extractPriceData(dom', o).ok

SelectionChangedAt(evs) == {i \in 1..Len(evs) : evs[i].type = "SelectionChanged"}

\* C12: every selection that moves the marker to another option with a
\* valid price dispatches exactly one SelectionChanged, for that option, with
\* the planType, price and hasDiscount the extractor derives for it; so k
\* selections dispatch k SelectionChanged events in selection order.
C12_EachSelectionDispatched ==
    [][\A s \in Sessions : \A o \in Options :
          SelectStep(s, o) =>
              /\ Cardinality(SelectionChangedAt(events')) = 1
              /\ \A i \in SelectionChangedAt(events') :
                    /\ events'[i].node = o
                    /\ events'[i].s = s
                    /\ events'[i].planType = extractPriceData(dom', o).planType
                    /\ events'[i].price = extractPriceData(dom', o).price
                    /\ events'[i].hasDiscount = extractPriceData(dom', o).hasDiscount]_vars

\* the second of two selections: one-time at 10.00 was announced when the
\* widget rendered, then the marker moved to the discounted subscription
C12_Witness ==
    \E i \in 1..Len(events) :
        /\ IsSelectionChanged(i)
        /\ events[i].changeType = "selection"
        /\ events[i].node = 2
        /\ events[i].planType = "subscription"
        /\ events[i].price = 850
        /\ events[i].hasDiscount

\* extraction fails for the node that carries the selected marker
ExtractionFails == dom.selected # NoNode /\ ~extractPriceData(dom, dom.selected).ok

\* C13: a task whose extraction fails dispatches neither SelectionChanged
\* nor VariantUpdated, and no handler ends by an exception.
C13_FailureSuppressesDispatch ==
    ExtractionFails =>
        /\ events = << >>
        /\ \A s \in Sessions : ~sessions[s].threw

\* the selection handler acted on a record and extraction failed
C13_Witness ==
    /\ ExtractionFails
    /\ \E s \in Sessions : sessions[s].qualified
    /\ events = << >>

\* C14: after a task whose extraction failed, the selection the session
\* remembers is still the node of the last SelectionChanged it dispatched,
\* or none.
C14_FailureKeepsSelectionState ==
    ExtractionFails =>
        \A s \in Sessions :
            sessions[s].currentSelectedElement \in {NoNode, sessions[s].lastDispatched}

\* the descriptor synthesized when there is no parsed snapshot
FallbackDescriptor == Resource(dom.formId, "true", "false", "none")

\* C15: with the product form present and the snapshot missing or
\* unparsable, every SelectionChanged is still followed by a VariantUpdated,
\* and every VariantUpdated carries exactly the fallback descriptor.
C15_FallbackSnapshot ==
    (dom.form /\ dom.snapshot.kind \in {"absent", "unparsable"}) =>
        /\ \A i \in 1..Len(events) :
              IsSelectionChanged(i) => (i < Len(events) /\ IsVariantUpdated(i + 1))
        /\ \A i \in 1..Len(events) :
              IsVariantUpdated(i) => events[i].resource = FallbackDescriptor

\* a VariantUpdated dispatched although the embedded JSON does not parse
C15_Witness ==
    /\ dom.form
    /\ dom.snapshot.kind = "unparsable"
    /\ \E i \in 1..Len(events) :
          IsVariantUpdated(i) /\ events[i].resource = FallbackDescriptor /\ events[i].resource.id = "v1"

\* C16: for every snapshot content and every form state, no handler of the
\* bridge ends by an exception.
C16_NoExceptionEscapes == \A s \in Sessions : ~sessions[s].threw

\* C17: a VariantUpdated built from a parsed snapshot has the form's variant
\* id whenever the form has one (else the snapshot's), keeps the snapshot's
\* other fields, and has the product form's product id.
C17_SnapshotIdOverridden ==
    dom.snapshot.kind = "object" =>
        \A i \in 1..Len(events) :
            IsVariantUpdated(i) =>
                /\ events[i].resource.id = (IF dom.formId # "" THEN dom.formId ELSE dom.snapshot.id)
                /\ dom.snapshot.available # "undefined" =>
                      events[i].resource.available = dom.snapshot.available
                /\ dom.snapshot.inventory_management # "undefined" =>
                      events[i].resource.inventory_management = dom.snapshot.inventory_management
                /\ events[i].resource.rest = "snapshot"
                /\ events[i].productId = dom.productId

\* a VariantUpdated whose snapshot id v2 was overridden by the form's v1
C17_Witness ==
    /\ dom.snapshot = ObjectSnapshot
    /\ dom.formId = "v1"
    /\ \E i \in 1..Len(events) :
          /\ IsVariantUpdated(i)
          /\ events[i].resource.id = "v1"
          /\ events[i].resource.available = "false"
          /\ events[i].productId = "p1"

\* the positions the walk visits that carry a plan token
TokenPositions(chain) ==
    {i \in 1..Len(chain) : i <= MaxDepth /\ chain[i] \cap {"onetime", "subscription"} # {}}

\* the kinds the nearest token-carrying ancestor within the depth bound
\* allows: both when it carries both tokens, unknown when there is none
NearestKinds(chain) ==
    IF TokenPositions(chain) = {} THEN {"unknown"}
    ELSE {kd \in {"one-time", "subscription"} :
            (IF kd = "one-time" THEN "onetime" ELSE "subscription") \in chain[FirstOf(TokenPositions(chain))]}

\* C18: the planType of every SelectionChanged is the kind of the nearest
\* ancestor of the selected node, within the depth bound, that carries a
\* one-time or a subscription token.
C18_NearestMatchWins ==
    \A i \in 1..Len(events) :
        IsSelectionChanged(i) => events[i].planType \in NearestKinds(dom.chain[events[i].node])

\* C19: in every SelectionChanged a one-time option was read from its price
\* element, a subscription option from its discounted price if it has one
\* and else from its unit price, and hasDiscount says exactly that the
\* discounted price was present and used.
C19_PriceNodeLookup ==
    \A i \in 1..Len(events) :
        IsSelectionChanged(i) =>
            /\ events[i].priceElement \in dom.els[events[i].node]
            /\ events[i].planType = "one-time" => events[i].priceElement = "price"
            /\ events[i].planType = "subscription" =>
                  events[i].priceElement =
                      (IF "discounted" \in dom.els[events[i].node] THEN "discounted" ELSE "unit")
            /\ events[i].hasDiscount <=>
                  (events[i].planType = "subscription" /\ events[i].priceElement = "discounted")

\* a subscription option without discounted price, read from its unit price
C19_Witness ==
    \E i \in 1..Len(events) :
        /\ IsSelectionChanged(i)
        /\ events[i].planType = "subscription"
        /\ events[i].priceElement = "unit"
        /\ ~events[i].hasDiscount
        /\ "price" \in dom.els[events[i].node]

\* what pattern p yields on text t: the captured value, 0 without a match
PatternYield(p, t) == IF PatternCapture(p, t) = 0 THEN 0 ELSE t[PatternCapture(p, t)].c

WinningPatterns(t) == {p \in 1..NumPatterns : PatternYield(p, t) > 0}

FirstPositiveYield(t) ==
    IF WinningPatterns(t) = {} THEN 0 ELSE PatternYield(FirstOf(WinningPatterns(t)), t)

\* the price element the extractor reads for option o, "none" if there is none
UsedPriceElement(o) ==
    priceElementOf(dom.els[o], isOneTimeOption(dom.chain[o]), isSubscriptionOption(dom.chain[o]))

\* the text the extractor parses for the node carrying the selected marker
HasUsedText == dom.selected # NoNode /\ UsedPriceElement(dom.selected) # "none"

UsedText == dom.txt[dom.selected][UsedPriceElement(dom.selected)]

\* C20: every SelectionChanged carries a price greater than zero, the value
\* of the first pattern in order that yields one on the text of the price
\* node used; a text on which no pattern yields a positive value produces no
\* event, and a text on which one does is dispatched when a handler acts.
C20_FirstPositivePatternWins ==
    /\ \A i \in 1..Len(events) :
          IsSelectionChanged(i) =>
              /\ events[i].price > 0
              /\ events[i].price = FirstPositiveYield(dom.txt[events[i].node][events[i].priceElement])
    /\ (HasUsedText /\ FirstPositiveYield(UsedText) = 0) => events = << >>
    /\ (HasUsedText /\ FirstPositiveYield(UsedText) > 0) =>
          \A s \in Sessions : sessions[s].qualified => events # << >>

\* "$0.00 12.00 USD": the first four patterns yield nothing positive, the
\* fifth yields 12.00, which the SelectionChanged carries
C20_Witness ==
    \E i \in 1..Len(events) :
        /\ IsSelectionChanged(i)
        /\ dom.txt[events[i].node][events[i].priceElement] = ZeroThenTwelveUSD
        /\ events[i].price = 1200

\* C21: a session performs the initial-selection check at most once over
\* its whole life, whatever mutation, timer or other path runs afterwards.
C21_InitialCheckOnce == \A s \in Sessions : sessions[s].initialChecks <= 1

\* C22: a session with a selection watcher attached has no
\* widget-appearance watcher attached, and it never has more than one
\* selection watcher attached.
C22_WatcherHandOver ==
    \A s \in Sessions :
        /\ SelectionWatchers(s) <= 1
        /\ SelectionWatchers(s) > 0 => ~sessions[s].widgetObserver

\* a live session that watched the host for the widget, found the boundary
\* without any retry check and now has its selection watcher
C22_Witness ==
    \E s \in Sessions :
        /\ Live(s)
        /\ sessions[s].watched
        /\ sessions[s].lastAttempt = -1
        /\ Bound(s)
        /\ ~sessions[s].widgetObserver

\* the step of disconnectedCallback that runs destroy() on session s
DestroyStep(s) == hostConnected /\ ~hostConnected' /\ observer = s

\* the session's watcher fields are null and nothing of it is attached
WatchersCleared(s) ==
    /\ ~sessions[s].widgetObserver
    /\ ~sessions[s].selectionObserver
    /\ ~sessions[s].widgetContentObserver
    /\ SelectionWatchers(s) = 0
    /\ ContentWatchers(s) = 0

\* a watcher field is set exactly while its one watcher is attached, so
\* every disconnect, guarded by the field, acts on an attached watcher
FieldsMatchWatchers(s) ==
    /\ SelectionWatchers(s) = (IF sessions[s].selectionObserver THEN 1 ELSE 0)
    /\ ContentWatchers(s) = (IF sessions[s].widgetContentObserver THEN 1 ELSE 0)

\* C23: in the state right after destroy() the session's three watchers are
\* disconnected and their fields cleared, whatever discovery had reached;
\* and no watcher is ever disconnected twice, a field being set only while
\* its watcher is attached.
C23_TeardownClearsWatchers ==
    [][\A s \in Sessions :
          /\ DestroyStep(s) => (sessions[s].destroyed /\ WatchersCleared(s))'
          /\ FieldsMatchWatchers(s)']_vars

\* a session torn down while it was bound and still waiting for the
\* widget's content
C23_Witness ==
    \E s \in Sessions :
        /\ ~hostConnected
        /\ sessions[s].destroyed
        /\ sessions[s].rechargeContainer
        /\ ~sessions[s].destroyedUnbound
        /\ dom.opts = {}
        /\ WatchersCleared(s)

\* how often the widget element is inserted where re-insertion matters
MaxReinsertions == 2

AddWidgetAgain == AddWidgetUpTo(MaxReinsertions)

\* Re-insertion: one session on a loaded document; the widget element is
\* inserted, taken out and inserted again, its boundary exposed at any moment.
InitReinsert ==
    /\ Init
    /\ ~docLoading

NextReinsert ==
    \/ connectOnce
    \/ FireTimer
    \/ AddWidgetAgain
    \/ RemoveWidget
    \/ ExposeShadow
    \/ RenderWidget

SpecReinsert == InitReinsert /\ [][NextReinsert]_vars

\* the session gave up: a retry check reached maxAttempts, no retry timer
\* is pending and no boundary is recorded
GaveUp(s) == sessions[s].exhausted /\ ~HasTimer(s) /\ ~sessions[s].rechargeContainer

\* C24: a session that gave up stays as it is: no step records a boundary
\* for it, schedules a retry timer for it or dispatches an event of it.
C24_ExhaustedStaysIdle ==
    [][\A s \in Sessions :
          GaveUp(s) =>
              /\ ~sessions[s].rechargeContainer'
              /\ sessions[s].scheduled' = sessions[s].scheduled
              /\ ~Dispatched(s)']_vars

\* the step of connectedCallback
ConnectStep == ~hostConnected /\ hostConnected'

TimersOf(s) == {i \in 1..Len(timers) : timers[i].s = s}

\* session n is as a constructor run on the present document leaves it:
\* nothing in it that the present host subtree does not account for
StartsFresh(n) ==
    /\ sessions[n].created
    /\ ~sessions[n].destroyed
    /\ ~sessions[n].exhausted
    /\ sessions[n].lastAttempt \in {-1, 0}
    /\ sessions[n].scheduled = Cardinality(TimersOf(n))
    /\ \A i \in TimersOf(n) : timers[i].attempt = 1
    /\ sessions[n].rechargeContainer => (dom.widget /\ dom.shadow)
    /\ sessions[n].currentSelectedElement \in {NoNode, dom.selected}
    /\ sessions[n].lastDispatched \in {NoNode, dom.selected}
    /\ sessions[n].lastDispatched # NoNode => Dispatched(n)
    /\ sessions[n].initialChecks <= 1
    /\ sessions[n].dclPending =>
          sessions[n] = [NewSession EXCEPT !.created = TRUE, !.dclPending = TRUE]

\* C25: every connect of the host constructs a new session that starts
\* fresh: no retry check beyond attempt 0, only timers of attempt 1 that it
\* scheduled itself, a boundary and a selection only if the host has them
\* now, whatever the sessions before it went through.
C25_FreshSession ==
    [][ConnectStep => (nSessions' = nSessions + 1 /\ StartsFresh(nSessions)')]_vars

\* a reconnect after the first session exhausted its retry budget: the
\* second session has made its check of attempt 0 and scheduled attempt 1
C25_Witness ==
    /\ nSessions = 2
    /\ sessions[1].exhausted
    /\ sessions[1].destroyed
    /\ hostConnected
    /\ StartsFresh(2)
    /\ sessions[2].lastAttempt = 0
    /\ sessions[2].scheduled > 0

\* how often the extractor is invoked between two mutations
MaxInvocations == 2

\* the outcome of one invocation of the extractor on node o
Extracted(o, pd) == [type |-> "Extracted", node |-> o, result |-> pd]

\* one invocation of extractPriceData on a rendered option, its outcome
\* noted in `events`
InvokeExtractor ==
    /\ Len(events) < MaxInvocations
    /\ \E o \in dom.opts :
          /\ events' = Append(events, Extracted(o, extractPriceData(dom, o)))
          /\ dom' = extractPriceDataLeaves(dom, o)
    /\ UNCHANGED <<docLoading, hostConnected, observer, nSessions, sessions, timers, shadowObservers, adds,
                   sticky, addToCart, page, filters, loader, wrapper>>

\* Idempotence: the extractor invoked again and again on every widget of
\* ExtractDoms; a rewrite of a price text starts a new run of invocations.
NextIdempotent ==
    \/ InvokeExtractor
    \/ SetExtractText

SpecIdempotent == InitExtract /\ [][NextIdempotent]_vars

\* the step is an invocation of the extractor
InvokeStep == Len(events') = Len(events) + 1 /\ events'[Len(events')].type = "Extracted"

MaxStickyConnects == 2

\* a task of the consumers or of the page: the bridge dispatches nothing
ConsumerTask(w) ==
    /\ CommitWorld(w)
    /\ sessions' = Now.ss
    /\ events' = << >>
    /\ UNCHANGED <<docLoading, hostConnected, observer, nSessions, timers, shadowObservers, dom, adds>>

\* StickyBuyButtonsComponent.connectedCallback(): both observers are created
\* and report the present intersection first; #initScrollThreshold reads
\* window.scrollY and makes a new onScroll closure
StickyConnect ==
    /\ ~sticky.connected
    /\ sticky.generation < MaxStickyConnects
    /\ ConsumerTask(World([sticky EXCEPT !.connected = TRUE,
                                         !.generation = @ + 1,
                                         !.ticking = FALSE,
                                         !.scrollThresholdPassed = page.scrolled],
                          addToCart,
                          [Here.page EXCEPT !.buyEntries = <<page.buttonsInView>>,
                                            !.footerEntries = <<page.footerInView>>]))

\* StickyBuyButtonsComponent.disconnectedCallback(): the observers are
\* disconnected and the listeners aborted; a requested animation frame stays
StickyDisconnect ==
    /\ sticky.connected
    /\ ConsumerTask(World([sticky EXCEPT !.connected = FALSE],
                          addToCart,
                          [Here.page EXCEPT !.buyEntries = << >>, !.footerEntries = << >>]))

\* OneAddToCartComponent.connectedCallback()
AddToCartConnect ==
    /\ ~addToCart.connected
    /\ ConsumerTask(World(sticky, [addToCart EXCEPT !.connected = TRUE], Here.page))

\* OneAddToCartComponent.disconnectedCallback()
AddToCartDisconnect ==
    /\ addToCart.connected
    /\ ConsumerTask(addToCartDisconnected(Here))

\* the browser runs an animation frame OneAddToCartComponent requested
ReapplyFrame ==
    \E h \in page.frames : ConsumerTask(reapply([Here EXCEPT !.page.frames = @ \ {h}]))

\* Consumers: one session on a widget whose boundary is exposed, on every
\* host of DispatchDoms; the widget renders and the shopper moves the
\* selection while the sticky bar and the add-to-cart component, in the main
\* form or in the sticky bar, come and go.
InitConsumers ==
    /\ InitBridge(DispatchDoms)
    /\ ~docLoading
    /\ sticky = NewSticky
    /\ addToCart \in {NewAddToCart(b) : b \in BOOLEAN}
    /\ page = [NewPage(FALSE, TRUE, FALSE) EXCEPT !.mainId = dom.formId, !.stickyId = dom.formId]

NextConsumers ==
    \/ connectOnce
    \/ RenderWidget
    \/ Select
    \/ TouchSelected
    \/ StickyConnect
    \/ StickyDisconnect
    \/ AddToCartConnect
    \/ AddToCartDisconnect
    \/ ReapplyFrame

SpecConsumers == InitConsumers /\ [][NextConsumers]_vars

SelectionChangedIn(evs) == {i \in 1..Len(evs) : evs[i].type = "SelectionChanged"}

\* the plan kind of the last SelectionChanged of a task, "none" without one
LastPlan(evs) ==
    IF SelectionChangedIn(evs) = {} THEN "none" ELSE evs[LastOf(SelectionChangedIn(evs))].planType

\* C27: a task that dispatches SelectionChanged while the sticky bar and the
\* add-to-cart component are connected leaves both subscription flags equal
\* to (plan kind of its last SelectionChanged = subscription); a step
\* without a SelectionChanged changes neither flag.
C27_ConsumersRememberPlan ==
    [][/\ (sticky.connected /\ addToCart.connected /\ LastPlan(events') # "none") =>
             /\ sticky'.isSubscription = (LastPlan(events') = "subscription")
             /\ addToCart'.isSubscription = (LastPlan(events') = "subscription")
       /\ LastPlan(events') = "none" =>
             /\ sticky'.isSubscription = sticky.isSubscription
             /\ addToCart'.isSubscription = addToCart.isSubscription]_vars

\* both consumers connected and holding the subscription flag after the
\* shopper chose the subscription option
C27_Witness ==
    /\ sticky.connected
    /\ addToCart.connected
    /\ LastPlan(events) = "subscription"
    /\ sticky.isSubscription
    /\ addToCart.isSubscription

\* the session watches the host and no widget element has appeared since
\* its setup: no discovery attempt was made and none is pending
WaitsForWidget(s) ==
    /\ Live(s)
    /\ sessions[s].watched
    /\ ~dom.widget
    /\ sessions[s].lastAttempt = -1
    /\ ~sessions[s].rechargeContainer

\* the session has nothing but its widget-appearance watcher
IdleWatching(s) ==
    /\ sessions[s].widgetObserver
    /\ SelectionWatchers(s) = 0
    /\ ContentWatchers(s) = 0
    /\ ~HasTimer(s)
    /\ ~Dispatched(s)

\* the widget element appears in this step
WidgetAppears == ~dom.widget /\ dom'.widget

BoundAfterWatching(s) == Bound(s) /\ ~sessions[s].widgetObserver

MaxEntries == 2

\* the requestAnimationFrame callback of onScroll, the threshold part
scrollFrame(w) ==
    IF w.page.scrolled # w.sticky.scrollThresholdPassed
    THEN updateVisibility([w EXCEPT !.sticky.scrollThresholdPassed = w.page.scrolled])
    ELSE w

\* ticking = false, in the closure of generation g
endTick(w, g) ==
    IF g = w.sticky.generation THEN [w EXCEPT !.sticky.ticking = FALSE] ELSE w

\* the callback of #buyButtonsObserver: entries[0] of the queued entries
buyButtonsCallback(w, entries) ==
    IF entries = << >> THEN w
    ELSE updateVisibility([w EXCEPT !.sticky.buyButtonsInView = entries[1]])

\* the callback of #footerObserver: entries[0] of the queued entries
footerCallback(w, entries) ==
    IF entries = << >> THEN w
    ELSE updateVisibility([w EXCEPT !.sticky.footerInView = entries[1]])

\* the window scrolls, across the threshold or not; onScroll requests an
\* animation frame unless one of its closure is pending
Scroll ==
    \E crosses \in BOOLEAN :
        ConsumerTask(World(IF sticky.connected /\ ~sticky.ticking
                           THEN [sticky EXCEPT !.ticking = TRUE] ELSE sticky,
                           addToCart,
                           [Here.page EXCEPT
                               !.scrolled = IF crosses THEN ~@ ELSE @,
                               !.raf = IF sticky.connected /\ ~sticky.ticking
                                       THEN Append(@, sticky.generation) ELSE @]))

\* the oldest requested animation frame runs
AnimationFrame ==
    /\ page.raf # << >>
    /\ ConsumerTask(endTick(scrollFrame(World(sticky, addToCart, [Here.page EXCEPT !.raf = Tail(@)])),
                            Head(page.raf)))

\* the main buy buttons enter or leave the viewport; a connected bar's
\* observer queues an entry
BuyButtonsIntersect ==
    /\ Len(page.buyEntries) < MaxEntries
    /\ ConsumerTask(World(sticky, addToCart,
                          [Here.page EXCEPT
                              !.buttonsInView = ~@,
                              !.buyEntries = IF sticky.connected THEN Append(@, ~page.buttonsInView) ELSE @]))

\* the footer enters or leaves the viewport
FooterIntersect ==
    /\ Len(page.footerEntries) < MaxEntries
    /\ ConsumerTask(World(sticky, addToCart,
                          [Here.page EXCEPT
                              !.footerInView = ~@,
                              !.footerEntries = IF sticky.connected THEN Append(@, ~page.footerInView) ELSE @]))

\* the task that notifies the intersection observers: each observer with
\* queued entries gets all of them in one call, in creation order
NotifyIntersectionObservers ==
    /\ page.buyEntries # << >> \/ page.footerEntries # << >>
    /\ ConsumerTask(footerCallback(buyButtonsCallback(World(sticky, addToCart,
                                                           [Here.page EXCEPT !.buyEntries = << >>,
                                                                             !.footerEntries = << >>]),
                                                     page.buyEntries),
                                  page.footerEntries))

\* Visibility: the sticky bar on a page that scrolls, its buy buttons and
\* footer entering and leaving the viewport, the bar disconnected and
\* connected again at any moment.
InitVisibility ==
    /\ InitBridge({Dom(FALSE, TRUE, NoSnapshot)})
    /\ ~docLoading
    /\ sticky = NewSticky
    /\ addToCart = NewAddToCart(FALSE)
    /\ page \in {NewPage(sc, b, f) : sc \in BOOLEAN, b \in BOOLEAN, f \in BOOLEAN}

NextVisibility ==
    \/ StickyConnect
    \/ StickyDisconnect
    \/ Scroll
    \/ AnimationFrame
    \/ BuyButtonsIntersect
    \/ FooterIntersect
    \/ NotifyIntersectionObservers

SpecVisibility == InitVisibility /\ [][NextVisibility]_vars

\* no observer callback and no animation frame is pending
NothingPending ==
    /\ page.raf = << >>
    /\ page.buyEntries = << >>
    /\ page.footerEntries = << >>

\* C29: whenever the connected sticky bar has no callback pending, it is
\* visible exactly if the window is scrolled past the threshold and neither
\* the main buy buttons nor the footer are in view.
C29_VisibleIffConditions ==
    (sticky.connected /\ NothingPending) =>
        (sticky.isVisible <=> (page.scrolled /\ ~page.buttonsInView /\ ~page.footerInView))

\* ------------------------------------------------------- quantity sync

\* the quantities a shopper can enter on the product page: 1..MaxQuantity
MaxQuantity == 3

\* nested dispatches of the change event after which a cascade counts as endless
MaxCascade == 3

Quantities == 1..MaxQuantity

\* the shopper edits a quantity input, of the sticky bar or of the main
\* form; its change event bubbles to the section
ChangeQuantity ==
    \E isFromStickyBar \in BOOLEAN : \E v \in Quantities :
        /\ v # (IF isFromStickyBar THEN page.stickyQuantity ELSE page.mainQuantity)
        /\ ConsumerTask(IF sticky.connected
                        THEN handleFormChange(World(sticky, addToCart,
                                                    IF isFromStickyBar
                                                    THEN [Here.page EXCEPT !.stickyQuantity = v]
                                                    ELSE [Here.page EXCEPT !.mainQuantity = v]),
                                              "quantity", isFromStickyBar, v, MaxCascade)
                        ELSE World(sticky, addToCart,
                                   IF isFromStickyBar
                                   THEN [Here.page EXCEPT !.stickyQuantity = v]
                                   ELSE [Here.page EXCEPT !.mainQuantity = v]))

\* a quantity selector, of the sticky bar or of the main form, steps its
\* input to v and announces it with a quantitySelectorUpdate event
QuantitySelectorUpdate ==
    \E isFromStickyBar \in BOOLEAN : \E v \in Quantities :
        /\ v # (IF isFromStickyBar THEN page.stickyQuantity ELSE page.mainQuantity)
        /\ ConsumerTask(IF sticky.connected
                        THEN handleQuantityUpdate(World(sticky, addToCart,
                                                        IF isFromStickyBar
                                                        THEN [Here.page EXCEPT !.stickyQuantity = v]
                                                        ELSE [Here.page EXCEPT !.mainQuantity = v]),
                                                  isFromStickyBar, v, MaxCascade)
                        ELSE World(sticky, addToCart,
                                   IF isFromStickyBar
                                   THEN [Here.page EXCEPT !.stickyQuantity = v]
                                   ELSE [Here.page EXCEPT !.mainQuantity = v]))

\* Quantity: the shopper changes the quantity in the sticky bar and in the
\* main form, by typing and by the selector's buttons, while the bar comes
\* and goes and is shown and hidden.
NextQuantity ==
    \/ StickyConnect
    \/ StickyDisconnect
    \/ ChangeQuantity
    \/ QuantitySelectorUpdate
    \/ Scroll
    \/ AnimationFrame
    \/ BuyButtonsIntersect
    \/ NotifyIntersectionObservers

SpecQuantity == InitVisibility /\ [][NextQuantity]_vars

\* the step changes a quantity input
QuantityChanges ==
    \/ page'.stickyQuantity # page.stickyQuantity
    \/ page'.mainQuantity # page.mainQuantity

\* C30: a quantity change made while the sticky bar is connected, in the
\* bar or in the main form, ends with both quantity inputs holding the same
\* value after at most one synthesized input/change pair; the cascade of
\* change events does not go on.
C30_QuantitySyncTerminates ==
    [][(sticky.connected /\ QuantityChanges) =>
          /\ page'.stickyQuantity = page'.mainQuantity
          /\ page'.synthesized <= 2
          /\ ~page'.diverged]_vars

\* a change made in the sticky bar reached the main form by one
\* synthesized input/change pair
C30_Witness ==
    /\ sticky.connected
    /\ page.synthesized = 2
    /\ page.mainQuantity = MaxQuantity
    /\ page.stickyQuantity = MaxQuantity

\* --------------------------------------------- fields other than quantity

VariantIds == {"v1", "v2"}

SellingPlans == {"", "sp1"}

\* the values an input named name can take
ValuesOf(name) == IF name = "id" THEN VariantIds ELSE SellingPlans

\* the input named name of the sticky bar or of the main form takes value v
edited(w, name, isFromStickyBar, v) ==
    CASE name = "id" /\ isFromStickyBar -> [w EXCEPT !.page.stickyId = v]
      [] name = "id" /\ ~isFromStickyBar -> [w EXCEPT !.page.mainId = v]
      [] name = "selling_plan" /\ isFromStickyBar -> [w EXCEPT !.page.stickyPlan = v]
      [] name = "selling_plan" /\ ~isFromStickyBar -> [w EXCEPT !.page.mainPlan = v]

\* the change event of the edited input, noted in the page
changeEvent(w, name, isFromStickyBar) ==
    [w EXCEPT !.page.changedName = name, !.page.changedInSticky = isFromStickyBar]

\* the variant id or the selling plan is changed in the sticky bar or in the
\* main form; the change event bubbles to the section. The sticky bar has a
\* selling_plan input to change only once one was created.
ChangeField ==
    \E name \in {"id", "selling_plan"} : \E isFromStickyBar \in BOOLEAN : \E v \in ValuesOf(name) :
        /\ ~(name = "selling_plan" /\ isFromStickyBar /\ page.stickyPlan = "missing")
        /\ ConsumerTask(IF sticky.connected
                        THEN handleFormChange(
                                 changeEvent(edited(Here, name, isFromStickyBar, v), name, isFromStickyBar),
                                 name, isFromStickyBar, v, MaxCascade)
                        ELSE changeEvent(edited(Here, name, isFromStickyBar, v), name, isFromStickyBar))

\* Form: the sticky bar and the main form of one product; the shopper
\* changes variant, selling plan and quantity in either form while the bar
\* connects, disconnects, shows and hides.
InitForm == InitVisibility

NextForm ==
    \/ StickyConnect
    \/ StickyDisconnect
    \/ ChangeField
    \/ ChangeQuantity
    \/ BuyButtonsIntersect
    \/ NotifyIntersectionObservers

SpecForm == InitForm /\ [][NextForm]_vars

\* C31: a task that begins with a change event of the variant id or of the
\* selling plan inside the sticky bar leaves the three inputs of the main
\* form as they were and dispatches no event on them.
C31_OtherFieldsOneWay ==
    [][(page'.changedInSticky /\ page'.changedName \in {"id", "selling_plan"}) =>
          /\ page'.mainId = page.mainId
          /\ page'.mainPlan = page.mainPlan
          /\ page'.mainQuantity = page.mainQuantity
          /\ page'.synthesized = 0]_vars

\* the connected bar after its variant id was changed to one the main form
\* does not have
C31_Witness ==
    /\ sticky.connected
    /\ page.changedInSticky
    /\ page.changedName = "id"
    /\ page.stickyId # page.mainId

\* ------------------------------------------- variant updates of the theme

\* the theme's variants: v2 with its media, sold out or not, and a resource
\* that says nothing about availability
ThemeResources ==
    { NoResource,
      Resource("v2", "true", "shopify", "media1"),
      Resource("v2", "false", "shopify", "media2"),
      Resource("v1", "undefined", "undefined", "none") }

\* data.html of the theme's event: absent, with a price container, without one
ThemeHtml == {NoText, EightFifty, NoContainer}

ProductIds == {"", "p1", "p2"}

\* a task that dispatches the events evs in the document, the bridge idle
DispatchTask(evs) ==
    /\ CommitWorld(deliverAll(Here, evs, 1, TRUE))
    /\ sessions' = Now.ss
    /\ events' = evs
    /\ UNCHANGED <<docLoading, hostConnected, observer, nSessions, timers, shadowObservers, dom, adds>>

\* the theme's variant picker dispatches VariantUpdated for a product of the
\* section
ThemeVariantUpdateOf(resources, htmls, productIds) ==
    \E resource \in resources : \E html \in htmls : \E productId \in productIds :
        /\ events' = <<VariantUpdated(0, NoNode, "theme", resource, html, productId)>>
        /\ DispatchTask(events')

ThemeVariantUpdate == ThemeVariantUpdateOf(ThemeResources, ThemeHtml, ProductIds)

\* Variant: one session on a rendered widget, the shopper moving between
\* the one-time and the subscription option, the theme's variant picker
\* dispatching updates for this product and for others, the sticky bar
\* coming and going.
InitVariant ==
    /\ InitBridge({[Dom(TRUE, TRUE, NoSnapshot) EXCEPT !.shadow = TRUE]})
    /\ ~docLoading
    /\ sticky = NewSticky
    /\ addToCart = NewAddToCart(TRUE)
    /\ page \in {[NewPage(FALSE, TRUE, FALSE) EXCEPT !.stickyProductId = id] : id \in {"", "p1"}}

NextVariant ==
    \/ connectOnce
    \/ RenderWidget
    \/ Select
    \/ StickyConnect
    \/ StickyDisconnect
    \/ ThemeVariantUpdate

SpecVariant == InitVariant /\ [][NextVariant]_vars

VariantUpdatedIn(evs) == {i \in 1..Len(evs) : evs[i].type = "VariantUpdated"}

\* every event of the task is a VariantUpdated of another product than the
\* sticky bar's
OnlyForeignUpdates(evs) ==
    /\ evs # << >>
    /\ page.stickyProductId # ""
    /\ \A i \in 1..Len(evs) :
          /\ evs[i].type = "VariantUpdated"
          /\ evs[i].productId # ""
          /\ evs[i].productId # page.stickyProductId

\* C32: a task whose events are VariantUpdated with a product id that is
\* present and differs from the one of the sticky bar's product form leaves
\* the bar's variant id input, its button's disabled state and text, its
\* price and its thumbnail as they were.
C32_ForeignUpdateIgnored ==
    [][OnlyForeignUpdates(events') =>
          /\ page'.stickyId = page.stickyId
          /\ page'.stickyDisabled = page.stickyDisabled
          /\ page'.stickyText = page.stickyText
          /\ page'.stickyPrice = page.stickyPrice
          /\ page'.stickyMedia = page.stickyMedia]_vars

\* the connected bar of product p1, showing what an update of its own
\* product made it show, after an update for product p2 that carries
\* another variant, price and thumbnail
C32_Witness ==
    /\ sticky.connected
    /\ page.stickyProductId = "p1"
    /\ Len(events) = 1
    /\ events[1].type = "VariantUpdated"
    /\ events[1].productId = "p2"
    /\ events[1].resource = Resource("v2", "false", "shopify", "media2")
    /\ events[1].html = EightFifty
    /\ page.stickyMedia = 1
    /\ ~page.stickyDisabled

\* ------------------------------------------------ the add-to-cart text

\* the theme's updates as the add-to-cart component sees them: a resource
\* or none, available, sold out or silent about it
ThemeAvailabilityUpdate == ThemeVariantUpdateOf(ThemeResources, {EightFifty}, {"p1"})

\* the theme morphs the product form after a variant update: the buttons
\* get their rendered text back
Morph ==
    /\ page.stickyText # "default" \/ page.mainText # "default"
    /\ ConsumerTask([Here EXCEPT !.page.stickyText = "default", !.page.mainText = "default"])

\* Button: one session on a rendered widget, on a host with and without a
\* sold-out variant snapshot; the shopper moves between the one-time and the
\* subscription option, the theme's variant picker dispatches its own
\* updates and morphs the form, the add-to-cart component, in the main form
\* or in the sticky bar, comes and goes. The browser runs every animation
\* frame that stays requested.
ButtonDoms ==
    {[Dom(TRUE, TRUE, sn) EXCEPT !.shadow = TRUE] : sn \in {NoSnapshot, ObjectSnapshot}}

InitButton ==
    /\ InitBridge(ButtonDoms)
    /\ ~docLoading
    /\ sticky = NewSticky
    /\ addToCart \in {NewAddToCart(b) : b \in BOOLEAN}
    /\ page = NewPage(FALSE, TRUE, FALSE)

NextButton ==
    \/ connectOnce
    \/ RenderWidget
    \/ Select
    \/ AddToCartConnect
    \/ AddToCartDisconnect
    \/ ThemeAvailabilityUpdate
    \/ Morph
    \/ ReapplyFrame

SpecButton == InitButton /\ [][NextButton]_vars /\ WF_page(ReapplyFrame)

\* C33: the add-to-cart component has at most one animation frame pending,
\* the one #pendingRaf names; it has none while it is disconnected; and a
\* task in which it updated the button text leaves it connected.
C33_OneFramePending ==
    /\ Cardinality(page.frames) <= 1
    /\ page.frames = (IF addToCart.pendingRaf = 0 THEN {} ELSE {addToCart.pendingRaf})
    /\ ~addToCart.connected => page.frames = {}
    /\ page.textUpdates > 0 => addToCart.connected

\* a VariantUpdated cancelled the pending frame and requested another
C33_Witness ==
    /\ addToCart.connected
    /\ page.cancelled = 1
    /\ Cardinality(page.frames) = 1
    /\ VariantUpdatedIn(events) # {}

\* the text of the add-to-cart component's button
ButtonText == IF addToCart.inStickyBar THEN page.stickyText ELSE page.mainText

\* the task dispatched a VariantUpdated whose resource is not marked unavailable
Reappliable(evs) ==
    \E i \in VariantUpdatedIn(evs) : evs[i].resource = NoResource \/ evs[i].resource.available # "false"

\* every event of the task is a VariantUpdated, and the plan is not
\* subscription or every resource is marked unavailable
NothingToReapply(evs) ==
    /\ evs # << >>
    /\ \A i \in 1..Len(evs) : evs[i].type = "VariantUpdated"
    /\ \/ ~addToCart.isSubscription
       \/ \A i \in 1..Len(evs) : evs[i].resource # NoResource /\ evs[i].resource.available = "false"

\* C34: after a VariantUpdated not marked unavailable reached the connected
\* component while its plan is subscription, an animation frame eventually
\* sets the button text to the subscription text, unless the component is
\* disconnected or the plan changes first; a task of VariantUpdated events
\* with the plan not subscription, or with every resource unavailable,
\* requests no frame, cancels none and updates no text.
C34_SubscriptionTextReapplied ==
    /\ (addToCart.connected /\ addToCart.isSubscription /\ Reappliable(events))
          ~> \/ page.reapplied /\ ButtonText = "subscription"
             \/ ~addToCart.connected
             \/ ~addToCart.isSubscription
    /\ [][NothingToReapply(events') =>
              /\ page'.frames = page.frames
              /\ addToCart'.pendingRaf = addToCart.pendingRaf
              /\ page'.textUpdates = 0]_vars

\* an animation frame gave the morphed button its subscription text back
C34_Witness ==
    /\ addToCart.connected
    /\ addToCart.isSubscription
    /\ page.reapplied
    /\ ButtonText = "subscription"
    /\ page.frames = {}

\* ------------------------------------------------- the filter observers

\* the clock advances in steps of TimeStep up to MaxTime
TimeStep == 25

MaxTime == 150

\* the bridge and the consumers at rest while another module runs
BridgeRests ==
    UNCHANGED <<docLoading, hostConnected, observer, nSessions, sessions, timers, shadowObservers,
                dom, adds, events, sticky, addToCart, page>>

FilterTask(f) ==
    /\ filters' = f
    /\ BridgeRests
    /\ UNCHANGED <<loader, wrapper>>

\* FilterObserver.connectedCallback()
FilterConnect ==
    \E i \in Instances \ filters.connected :
        FilterTask([filters EXCEPT !.connected = @ \cup {i}])

\* FilterObserver.disconnectedCallback(): the section's timer stays
FilterDisconnect ==
    \E i \in filters.connected :
        FilterTask([filters EXCEPT !.connected = @ \ {i}])

\* a filter changes: FilterUpdate is dispatched on the document, early
\* enough for its timer to come due within MaxTime
FilterUpdate ==
    /\ filters.connected # {}
    /\ filters.now + DebounceDelay <= MaxTime
    /\ FilterTask(dispatchFilterUpdate(filters, 1))

\* a debounce timer fires, at its due time or later
FilterTimer ==
    \E t \in filters.pending :
        /\ t.due <= filters.now
        /\ FilterTask(debounced(filters, t))

\* time passes
Tick ==
    /\ filters.now + TimeStep <= MaxTime
    /\ FilterTask([filters EXCEPT !.now = @ + TimeStep])

\* Filter: any number of instances of two sections and of none, connecting
\* and disconnecting; FilterUpdate events at any time; a timer fires when it
\* is due and the clock does not stop before MaxTime.
InitFilter ==
    /\ BridgeIdle({Dom(FALSE, TRUE, NoSnapshot)})
    /\ ~docLoading
    /\ ConsumersIdle
    /\ ModulesIdle

NextFilter ==
    \/ FilterConnect
    \/ FilterDisconnect
    \/ FilterUpdate
    \/ FilterTimer
    \/ Tick

SpecFilter == InitFilter /\ [][NextFilter]_vars /\ WF_filters(FilterTimer) /\ WF_filters(Tick)

\* the handler runs for section s in this step and continues the burst
ContinuesBurst(s) ==
    /\ filters'.lastRun[s] = filters.now
    /\ filters'.now = filters.now
    /\ filters'.pending # filters.pending \/ filters'.timerOf # filters.timerOf
    /\ filters.lastRun[s] >= 0
    /\ filters.now - filters.lastRun[s] < DebounceDelay

\* C35: a section has at most one debounce timer pending and at most one
\* renderSection call per burst; a handler run that continues a burst finds
\* no render made in it; and a pending timer leads to the one render of its
\* burst with no timer left.
C35_OneRenderPerBurst ==
    /\ [](\A s \in Sections : Cardinality(PendingFor(filters, s)) <= 1 /\ filters.renders[s] <= 1)
    /\ [][\A s \in Sections : ContinuesBurst(s) => filters.renders[s] = 0]_vars
    /\ \A s \in Sections :
          (PendingFor(filters, s) # {}) ~> (filters.renders[s] = 1 /\ PendingFor(filters, s) = {})

\* section 1 was rendered once after a burst in which both of its instances
\* ran their handler twice, the second time later than the first
C35_Witness ==
    /\ filters.renders[1] = 1
    /\ filters.lastRun[1] = TimeStep
    /\ PendingFor(filters, 1) = {}
    /\ {1, 2} \subseteq filters.connected

\* ------------------------------------------------------ loading GSAP

\* calls of loadCore, loadScrollTrigger and loadAll made on the page
MaxCalls == 3

LoaderTask(l) ==
    /\ loader' = l
    /\ BridgeRests
    /\ UNCHANGED <<filters, wrapper>>

\* a module calls one of the three methods
CallLoader ==
    /\ Len(loader.calls) < MaxCalls
    /\ \E kind \in {"loadCore", "loadScrollTrigger", "loadAll"} : LoaderTask(called(loader, kind))

\* a microtask: a call continues after what it awaited has settled
Continue ==
    \E i \in 1..Len(loader.calls) :
        /\ loader.calls[i].state = "pending"
        /\ awaited(loader, loader.calls[i]) # "pending"
        /\ LoaderTask(continue(loader, i))

\* an appended script fires load or error
ScriptSettles ==
    \/ loader.coreScript = "loading" /\ LoaderTask(coreOnload(loader))
    \/ loader.coreScript = "loading" /\ LoaderTask(coreOnerror(loader))
    \/ loader.stScript = "loading" /\ LoaderTask(scrollTriggerOnload(loader))
    \/ loader.stScript = "loading" /\ LoaderTask(scrollTriggerOnerror(loader))

\* Loader: up to MaxCalls calls of the three methods in any order and at any
\* moment, on a page that may already have gsap or ScrollTrigger; every
\* appended script fires load or error, every microtask runs.
InitLoader ==
    /\ BridgeIdle({Dom(FALSE, TRUE, NoSnapshot)})
    /\ ~docLoading
    /\ ConsumersIdle
    /\ filters = NewFilters
    /\ wrapper = NewWrapper
    /\ loader \in {[NewLoader EXCEPT !.gsap = g, !.ScrollTrigger = st] : g \in BOOLEAN, st \in BOOLEAN}

NextLoader ==
    \/ CallLoader
    \/ Continue
    \/ ScriptSettles

SpecLoader == InitLoader /\ [][NextLoader]_vars /\ WF_loader(Continue) /\ WF_loader(ScriptSettles)

\* C36: at most one core script and at most one ScrollTrigger script are
\* ever appended, and a ScrollTrigger script only once window.gsap is
\* defined and no core script is still loading or has failed.
C36_ScriptsDeduplicated ==
    /\ loader.coreScripts <= 1
    /\ loader.stScripts <= 1
    /\ loader.stScripts > 0 => (loader.gsap /\ loader.coreScript \in {"none", "loaded"})

\* both scripts were appended once, after three calls, one of them made
\* while the core script was loading and one after it had loaded
C36_Witness ==
    /\ Len(loader.calls) = MaxCalls
    /\ loader.coreScripts = 1
    /\ loader.stScripts = 1
    /\ loader.coreScript = "loaded"

\* C37: every call eventually settles.
C37_EveryCallSettles ==
    \A i \in 1..MaxCalls :
        (Len(loader.calls) >= i) ~> (Len(loader.calls) >= i /\ loader.calls[i].state # "pending")

\* ------------------------------------------- the Recharge widget wrapper

\* connectedCallback of the wrapper element runs at most this often
MaxConnects == 3

WrapperTask(x) ==
    /\ wrapper' = x
    /\ BridgeRests
    /\ UNCHANGED <<filters, loader>>

\* the element is inserted into the document
WrapperConnect ==
    /\ ~wrapper.connected
    /\ wrapper.connects < MaxConnects
    /\ WrapperTask(wrapperConnected(wrapper))

\* the element is removed from the document; its fetches go on
WrapperDisconnect ==
    /\ wrapper.connected
    /\ WrapperTask([wrapper EXCEPT !.connected = FALSE])

\* a section fetch resolves with the section
FetchResolves ==
    /\ wrapper.fetches > 0
    /\ WrapperTask(sectionFetched(wrapper))

\* a section fetch fails or brings no Recharge block
FetchFails ==
    /\ wrapper.fetches > 0
    /\ WrapperTask(fetchFailed(wrapper))

\* Wrapper: the element connected, disconnected and connected again, its
\* fetches answered at any moment; the section's block holds any of an
\* external script, the three configuration scripts and an id-less inline
\* script; the element is rendered with or without the configuration
\* scripts, the document with or without the external script.
InitWrapper ==
    /\ BridgeIdle({Dom(FALSE, TRUE, NoSnapshot)})
    /\ ~docLoading
    /\ ConsumersIdle
    /\ filters = NewFilters
    /\ loader = NewLoader
    /\ wrapper \in {[NewWrapper EXCEPT !.section = Section(e, c, a),
                                       !.elsewhere = other,
                                       !.config = IF rendered THEN 1 ELSE 0] :
                        e \in BOOLEAN, c \in BOOLEAN, a \in BOOLEAN,
                        other \in BOOLEAN, rendered \in BOOLEAN}

NextWrapper ==
    \/ WrapperConnect
    \/ WrapperDisconnect
    \/ FetchResolves
    \/ FetchFails

SpecWrapper == InitWrapper /\ [][NextWrapper]_vars

\* C38: the document has at most one script with the section's external
\* src, and the element at most one copy of every inline script of the
\* section, with or without an id.
C38_NoScriptTwice ==
    /\ ExternalInDocument(wrapper) <= 1
    /\ wrapper.config <= 1
    /\ wrapper.anonymous <= 1

====
